---------------------------- MODULE Spec2Model ----------------------------
(***************************************************************************)
(* Model of the client-side document pipeline, metadata deriver, quota     *)
(* ledger and project store of modSTR (src/App.tsx, the AI service wrapper *)
(* src/unnamed/part_004 and the project view in                            *)
(* src/components/ui/Header.tsx).                                          *)
(*                                                                         *)
(* React state is modelled by one variable per useState cell.  A callback  *)
(* that runs after an await keeps the values of the render it was created  *)
(* in; the model stores those captured values in the record of the call    *)
(* that is in flight.  Every suspension point on a network call is a       *)
(* separate step; code between two suspension points is one step.          *)
(***************************************************************************)
EXTENDS Integers, Sequences, FiniteSets, Bags, TLC

VARIABLES
    user,             \* useState<User|null>            App.tsx:38
    userPlan,         \* useState<Plan|null>            App.tsx:39
    userApiLimits,    \* useState<ApiLimits|null>       App.tsx:40
    projects,         \* useState<Project[]>            App.tsx:52
    processingQueue,  \* useState<ProcessingQueueItem[]> App.tsx:136
    isProcessing,     \* useState(false)                App.tsx:137
    isExtractingFor,  \* useState<Set<string>>          App.tsx:141
    job,              \* the processSingleDocument call in flight, with its closure
    uploads,          \* the running upload-simulation intervals App.tsx:1018
    reportGen,        \* the handleGenerateReport call in flight, with its closure
    derivs,           \* bag of the runProjectDetailExtraction calls in flight
    checks,           \* bag of the handleCheckCompleteness calls in flight
    nextId,           \* ids handed out so far (Date.now() based ids)
    deletedWhileQueued, \* history: ids of the documents the user deleted while
                        \* their job was waiting in the queue
    allowance,        \* the checkApiAllowance call under observation  App.tsx:396
    apiLimitsRow,     \* the user's row of table api_limits
    logCalls,         \* bag of the logAiCall calls in flight         part_004:50
    logged,           \* number of logAiCall calls made so far
    savedData,        \* the localStorage item STORAGE_KEY            App.tsx:53
    loaded,           \* what the initializer of the projects state returned
    calendar,         \* the clock, the user's time zone and the reset_date of
                      \* the user's api_limits row                 App.tsx:146
    aiUsage,          \* the rows of table ai_usage, in the order of insertion
    dailyUsage        \* str_count of the user's daily_usage row of today

pipelineVars == <<user, userPlan, userApiLimits, projects, processingQueue,
                  isProcessing, isExtractingFor, job, uploads, reportGen, nextId>>

deriverVars == <<derivs, checks>>

historyVars == <<deletedWhileQueued>>

\* the allowance check, the usage log and the snapshot loader, each observed on
\* its own in a specification of its own
accountVars == <<calendar, aiUsage, dailyUsage>>

serviceVars == <<allowance, apiLimitsRow, logCalls, logged, savedData, loaded,
                 accountVars>>

vars == <<pipelineVars, deriverVars, historyVars, serviceVars>>

-----------------------------------------------------------------------------
(* Bounds of the model *)

MaxDocs == 2        \* documents created in one behaviour
MaxProjects == 1    \* projects created in one behaviour

-----------------------------------------------------------------------------
(* Values *)

Null == "null"
UserId == "u1"

\* A value that may be null: the empty sequence, or the value in a sequence of one
None == <<>>
Some(x) == <<x>>
IsNull(o) == o = <<>>
Get(o) == o[1]

PROCESS_SUCCESS == "SUCCESS"
PROCESS_ERROR == "ERROR"
PROCESS_RATE_LIMITED == "RATE_LIMITED"
UNSUPPORTED_FOR_EXTRACTION == "UNSUPPORTED_FOR_EXTRACTION"
RATE_LIMIT_EXCEEDED == "RATE_LIMIT_EXCEEDED"


DocxMime == "application/vnd.openxmlformats-officedocument.wordprocessingml.document"

\* The mime types a file of the model can have: one of the supported list, the
\* DOCX special case, one of the known-unsupported list, and one in neither list.
FileTypes == {"application/pdf", DocxMime, "text/csv", "text/plain"}

\* The files the user of the pipeline specification picks: one the AI can read
\* and one it cannot
UploadFileTypes == {"application/pdf", "text/csv"}

SUPPORTED_MIME_TYPES_FOR_EXTRACTION ==
    {"image/jpeg", "image/png", "image/webp", "application/pdf", "image/gif",
     "image/bmp", "image/heic", "image/heif", "application/vnd.ms-excel", "text/html"}

KNOWN_UNSUPPORTED_MIME_TYPES ==
    {"application/msword", DocxMime,
     "application/vnd.openxmlformats-officedocument.spreadsheetml.sheet",
     "text/csv", "application/zip", "application/x-zip-compressed",
     "video/x-msvideo", "text/css", "application/xml", "text/xml",
     "application/octet-stream"}

-----------------------------------------------------------------------------
(* The generative-AI provider: what one generateContent call can do.  A     *)
(* failure is the set of markers its error text contains.                   *)

ProviderFailures == { {"429"}, {"RESOURCE_EXHAUSTED"}, {"other"} }

\* [ok |-> TRUE, text |-> t] : the call returned response.text = t
\* [ok |-> FALSE, err |-> m] : the call threw, error.toString() contains the markers m
ProviderReplies(texts) ==
    { [ok |-> TRUE, text |-> t, err |-> {}] : t \in texts } \cup
    { [ok |-> FALSE, text |-> "", err |-> m] : m \in ProviderFailures }

ExtractTexts == {"TEXT", ""}
ClassifyTexts == {"Sale Deed", "sale deed", "Deed", "Banana", ""}

\* String.prototype.startsWith('Error') on the strings of the model
StartsWithError(s) ==
    s \in {"Error: Unable to extract text from the provided file.",
           "Error: Empty or invalid text content from AI.",
           "Error: The text extraction process failed.",
           "Error: Unsupported file type for AI text extraction",
           "Error"}

DocxPlaceholder == "[Text content from DOCX file]"

\* extractTextFromFile, reduced to its result
ExtractTextFromFile(fileType, reply) ==
    IF fileType = "" \/ fileType \in KNOWN_UNSUPPORTED_MIME_TYPES
    THEN IF fileType = DocxMime THEN DocxPlaceholder ELSE UNSUPPORTED_FOR_EXTRACTION
    ELSE IF fileType \notin SUPPORTED_MIME_TYPES_FOR_EXTRACTION
    THEN "Error: Unsupported file type for AI text extraction"
    ELSE IF reply.ok
    THEN IF reply.text = "" THEN "Error: Empty or invalid text content from AI."
         ELSE reply.text
    ELSE IF "429" \in reply.err \/ "RESOURCE_EXCEEDED" \in reply.err
    THEN RATE_LIMIT_EXCEEDED
    ELSE "Error: The text extraction process failed."

DOCUMENT_TYPES ==
    <<"Sale Deed", "Mutation Entry", "Loan Agreement", "Property Tax Receipt",
      "Power of Attorney", "Title Search Report", "Encumbrance Certificate",
      "Building Plan Approval", "Society Share Certificate", "Society NOC",
      "NA Order", "7/12 Extract", "Lease Deed", "Agreement for Sale",
      "Will / Probate", "Partition Deed", "Occupancy Certificate",
      "RERA Registration Certificate", "Redevelopment Agreement",
      "Legal Heir Certificate", "CERSAI Report", "Commencement Certificate",
      "Layout Plan", "Other">>

DocumentTypeSet == { DOCUMENT_TYPES[i] : i \in 1..Len(DOCUMENT_TYPES) }

\* String.prototype.toLowerCase on the strings classifyDocument compares
ToLowerCase(s) ==
    CASE s = "Sale Deed" -> "sale deed"
      [] s = "Deed" -> "deed"
      [] s = "Banana" -> "banana"
      [] s = "Other" -> "other"
      [] OTHER -> s

\* DOCUMENT_TYPES.toLowerCase().includes(x): x occurs in the joined lower-case list
JoinedTypesInclude(x) == x \in {"sale deed", "deed", "other", ""}

\* typesArray.find(t => t.toLowerCase() === x), or Null when nothing matches
FindType(x) ==
    LET hits == { i \in 1..Len(DOCUMENT_TYPES) : ToLowerCase(DOCUMENT_TYPES[i]) = x }
    IN  IF hits = {} THEN Null
        ELSE DOCUMENT_TYPES[CHOOSE i \in hits : \A j \in hits : i <= j]

\* classifyDocument, reduced to its result
ClassifyDocument(reply) ==
    IF reply.ok
    THEN IF reply.text = "" THEN "Other"
         ELSE IF JoinedTypesInclude(ToLowerCase(reply.text))
              THEN IF FindType(ToLowerCase(reply.text)) # Null
                   THEN FindType(ToLowerCase(reply.text)) ELSE "Other"
              ELSE "Other"
    ELSE IF "429" \in reply.err \/ "RESOURCE_EXHAUSTED" \in reply.err
    THEN RATE_LIMIT_EXCEEDED
    ELSE "Error"

-----------------------------------------------------------------------------
(* Projects and documents *)

NoText == ""      \* extractedText: undefined

NewDocument(id, fileType, status) ==
    [id |-> id, fileType |-> fileType, status |-> status,
     extractedText |-> NoText, docTypes |-> <<>>, error |-> ""]

UndefinedList == {"<undefined>"}   \* missingDocuments: undefined

\* what the user typed into a field of the new-project form
Entered == "Entered"

NewProject(id, docs) ==
    [id |-> id, projectName |-> Entered, propertyAddress |-> Entered,
     clientName |-> Entered, searchPeriod |-> Entered,
     documents |-> docs, report |-> Null, scenario |-> "UNKNOWN",
     missingDocuments |-> UndefinedList]

SeqToSet(s) == { s[i] : i \in 1..Len(s) }

SeqMap(s, F(_)) == [i \in 1..Len(s) |-> F(s[i])]

\* projects.find(p => p.id === projectId) exists
HasProject(projs, pid) == \E i \in 1..Len(projs) : projs[i].id = pid

FindProject(projs, pid) ==
    projs[CHOOSE i \in 1..Len(projs) :
            projs[i].id = pid /\ \A j \in 1..Len(projs) : projs[j].id = pid => i <= j]

\* project?.documents.find(d => d.id === documentId) exists
HasDocument(projs, pid, did) ==
    /\ HasProject(projs, pid)
    /\ \E i \in 1..Len(FindProject(projs, pid).documents) :
           FindProject(projs, pid).documents[i].id = did

\* prev.map(p => p.id === pid ? {...p, documents: p.documents.map(d => d.id === did ? F(d) : d)} : p)
MapDocument(projs, pid, did, F(_)) ==
    [i \in 1..Len(projs) |->
        IF projs[i].id = pid
        THEN [projs[i] EXCEPT !.documents =
                 [k \in 1..Len(@) |-> IF @[k].id = did THEN F(@[k]) ELSE @[k]]]
        ELSE projs[i]]

AllDocuments(projs) ==
    UNION { SeqToSet(projs[i].documents) : i \in 1..Len(projs) }

\* the text generateReport and runProjectDetailExtraction aggregate: the documents
\* that are Processed and carry text (the joined string is empty iff this is empty)
AggregatedDocs(project) ==
    SelectSeq(project.documents,
              LAMBDA d : d.status = "Processed" /\ d.extractedText # NoText)

-----------------------------------------------------------------------------
(* Quota ledger: plan, usage and the allowance check *)

PlanMaxInputTokens == 100000
PlanMaxOutputTokens == 100000
PlanMaxStrsPerMonth == 2
PlanMaxStrsPerDay == 1
PlanMaxFileSizeMb == 10
PlanMaxTotalUploadMb == 50

BasicPlan ==
    [name |-> "Basic",
     max_input_tokens_per_month |-> PlanMaxInputTokens,
     max_output_tokens_per_month |-> PlanMaxOutputTokens,
     max_strs_per_month |-> PlanMaxStrsPerMonth,
     max_strs_per_day |-> PlanMaxStrsPerDay,
     max_file_size_mb_per_document |-> PlanMaxFileSizeMb,
     max_total_upload_mb_per_str |-> PlanMaxTotalUploadMb]

ApiLimits(strs, inTok, outTok) ==
    [strs_used_monthly |-> strs, input_tokens_used_monthly |-> inTok,
     output_tokens_used_monthly |-> outTok]

\* The answer of the daily_usage lookup: the request failed (any error but "no rows"),
\* or it gave str_count (0 when there is no row for today)
DailyUsageReply(failed, count) == [error |-> failed, str_count |-> count]
NoDailyUsage == DailyUsageReply(FALSE, 0)

\* checkApiAllowance with the monthly STR comparison made with >= in place of >
CheckApiAllowanceOffByOne(usageType, value, u, plan, limits, daily) ==
    IF IsNull(limits) \/ IsNull(plan) \/ u = Null THEN FALSE
    ELSE IF usageType = "STR_GEN"
    THEN IF Get(limits).strs_used_monthly + value >= Get(plan).max_strs_per_month
         THEN FALSE
         ELSE IF daily.error THEN FALSE
         ELSE ~(daily.str_count + value > Get(plan).max_strs_per_day)
    ELSE TRUE

\* checkApiAllowance(usageType, value) of the render that holds u, plan and limits
CheckApiAllowance(usageType, value, u, plan, limits, daily) ==
    IF IsNull(limits) \/ IsNull(plan) \/ u = Null THEN FALSE
    ELSE CASE usageType = "STR_GEN" ->
                IF Get(limits).strs_used_monthly + value > Get(plan).max_strs_per_month
                THEN FALSE
                ELSE IF daily.error THEN FALSE
                ELSE ~(daily.str_count + value > Get(plan).max_strs_per_day)
           [] usageType = "TOKENS_INPUT" ->
                ~(Get(limits).input_tokens_used_monthly + value
                      > Get(plan).max_input_tokens_per_month)
           [] usageType = "TOKENS_OUTPUT" ->
                ~(Get(limits).output_tokens_used_monthly + value
                      > Get(plan).max_output_tokens_per_month)
           [] usageType = "FILE_SIZE_DOC" ->
                ~(value > Get(plan).max_file_size_mb_per_document)
           [] usageType = "FILE_SIZE_TOTAL" ->
                ~(value > Get(plan).max_total_upload_mb_per_str)
           [] OTHER -> TRUE

\* both token checks a caller makes before an AI call
TokensAllowed(inTok, outTok, u, plan, limits) ==
    /\ CheckApiAllowance("TOKENS_INPUT", inTok, u, plan, limits, NoDailyUsage)
    /\ CheckApiAllowance("TOKENS_OUTPUT", outTok, u, plan, limits, NoDailyUsage)

\* Token estimates of processSingleDocument
FileTokens == 100                         \* Math.ceil(file.size / (1024 * 4)) of the files
ExtractOutputTokens == 2000
ClassifyInputTokens == 500
ClassifyOutputTokens == 50

\* The api_limits rows a fetch can find: an unused ledger, and one whose monthly
\* input tokens are used up
UnusedLimits == ApiLimits(0, 0, 0)
FetchedLimits == { UnusedLimits, ApiLimits(0, PlanMaxInputTokens, 0) }

-----------------------------------------------------------------------------
(* Calls in flight *)

\* The values a callback created in one render keeps: user, userPlan,
\* userApiLimits, isExtractingFor and projects of that render.  isExtractingFor
\* and projects are read from a closure only by runProjectDetailExtraction and
\* handleCheckCompleteness: a specification that leaves the deriver out
\* (withDeriver = FALSE) does not keep them.
Closure(withDeriver) ==
    [user |-> user, userPlan |-> userPlan, userApiLimits |-> userApiLimits,
     isExtractingFor |-> IF withDeriver THEN isExtractingFor ELSE {},
     projects |-> IF withDeriver THEN projects ELSE <<>>]

NoClosure == [user |-> Null, userPlan |-> None, userApiLimits |-> None,
              isExtractingFor |-> {}, projects |-> <<>>]

NoJob == [pc |-> "none", projectId |-> -1, documentId |-> -1, file |-> "",
          extractedText |-> NoText, closure |-> NoClosure]

NoReportGen == [pc |-> "none", project |-> NewProject(-1, <<>>), closure |-> NoClosure]

\* A stored snapshot of an earlier session: one project holding one processed
\* document (ids of stored items are below the ids handed out in this session)
StoredDocument ==
    [NewDocument(0, "application/pdf", "Processed") EXCEPT
        !.extractedText = "TEXT", !.docTypes = <<"Sale Deed">>]

StoredProject == NewProject(0, <<StoredDocument>>)

\* No checkApiAllowance call is observed
NoAllowanceCall ==
    [pc |-> "idle", usageType |-> "", value |-> 0, closure |-> NoClosure,
     daily |-> NoDailyUsage, result |-> FALSE]

\* The snapshot loader is not observed
NoSavedData == [kind |-> "absent", entries |-> <<>>]
NotLoaded == [done |-> FALSE, threw |-> FALSE, projects |-> <<>>]

\* A date: months are counted on through the years, days from 1
Date(month, day) == [month |-> month, day |-> day]

\* An instant: a date of the UTC calendar and whether the early hours of that
\* day are over
Instant(date, late) == [month |-> date.month, day |-> date.day, late |-> late]

\* The clock is not observed
NoCalendar ==
    [today |-> Instant(Date(1, 1), FALSE), tz |-> 0, reset_date |-> Date(1, 1),
     reads |-> 0, lastRead |-> "none"]

AccountsIdle ==
    /\ calendar = NoCalendar
    /\ aiUsage = <<>>
    /\ dailyUsage = 0

\* The allowance check, the usage log and the loader at rest
ServicesIdle ==
    /\ allowance = NoAllowanceCall
    /\ apiLimitsRow = UnusedLimits
    /\ logCalls = EmptyBag
    /\ logged = 0
    /\ savedData = NoSavedData
    /\ loaded = NotLoaded
    /\ AccountsIdle

\* The cells of the pipeline and the deriver after App is mounted with the
\* stored snapshot `stored`
AppMounted(stored) ==
    /\ projects = stored
    /\ processingQueue = <<>>
    /\ isProcessing = FALSE
    /\ isExtractingFor = {}
    /\ job = NoJob
    /\ uploads = {}
    /\ reportGen = NoReportGen
    /\ nextId = [doc |-> 1, proj |-> 1]
    /\ derivs = EmptyBag
    /\ checks = EmptyBag
    /\ deletedWhileQueued = {}

\* The state after App is mounted with the stored snapshot `stored`: nobody is
\* signed in
Mounted(stored) ==
    /\ user = Null
    /\ userPlan = None
    /\ userApiLimits = None
    /\ AppMounted(stored)
    /\ ServicesIdle

\* Nothing stored: the first start of the application
Init == Mounted(<<>>)

-----------------------------------------------------------------------------
(* Session: the onAuthStateChange handler and fetchUserPlanAndLimits *)

SignedIn ==
    /\ user = Null
    /\ user' = UserId
    /\ UNCHANGED <<userPlan, userApiLimits, projects, processingQueue, isProcessing,
                   isExtractingFor, job, uploads, reportGen, nextId, deriverVars, historyVars, serviceVars>>

SignedOut ==
    /\ user # Null
    /\ user' = Null
    /\ userPlan' = None
    /\ userApiLimits' = None
    /\ UNCHANGED <<projects, processingQueue, isProcessing, isExtractingFor, job,
                   uploads, reportGen, nextId, deriverVars, historyVars, serviceVars>>

\* fetchUserPlanAndLimits resolving with what it read: setUserPlan and
\* setUserApiLimits.  It is called on sign-in, after every successful AI step
\* and when the day changes (App.tsx:302), so an answer can arrive at any time
\* of a session; an answer that fails changes nothing.
FetchUserPlanAndLimitsDone(rows) ==
    /\ user # Null
    /\ \E row \in rows :
         /\ userPlan' = Some(BasicPlan)
         /\ userApiLimits' = Some(row)
    /\ UNCHANGED <<user, projects, processingQueue, isProcessing, isExtractingFor,
                   job, uploads, reportGen, nextId, deriverVars, historyVars, serviceVars>>

-----------------------------------------------------------------------------
(* User operations on projects and documents.  The handlers are reachable  *)
(* only while a user is signed in (App.tsx:1087 renders the login screen   *)
(* otherwise).                                                             *)

\* the number of files handed to one handleCreateProject call: one or two in
\* the pipeline specification, one in the deriver specification
BatchSizes == 1..2
SingleFile == {1}

\* handleCreateProject: the new project comes first, its documents start as
\* Uploaded and are queued at once
HandleCreateProject(sizes) ==
    /\ user # Null
    /\ ~IsNull(userPlan)
    /\ nextId.proj <= MaxProjects
    /\ \E n \in sizes :
         /\ nextId.doc + n - 1 <= MaxDocs
         /\ \E files \in [1..n -> UploadFileTypes], totalMb \in {1} :
              /\ CheckApiAllowance("FILE_SIZE_TOTAL", totalMb, user, userPlan,
                                   userApiLimits, NoDailyUsage)
              /\ LET docs == [i \in 1..n |->
                                NewDocument(nextId.doc + i - 1, files[i], "Uploaded")]
                     items == [i \in 1..n |->
                                [projectId |-> nextId.proj,
                                 documentId |-> nextId.doc + i - 1, file |-> files[i]]]
                 IN  /\ projects' = <<NewProject(nextId.proj, docs)>> \o projects
                     /\ processingQueue' = processingQueue \o items
                     /\ nextId' = [doc |-> nextId.doc + n, proj |-> nextId.proj + 1]
    /\ UNCHANGED <<user, userPlan, userApiLimits, isProcessing, isExtractingFor, job,
                   uploads, reportGen, deriverVars, historyVars, serviceVars>>

\* handleDocumentUpload with one file that passes the size checks: the document
\* is added as Uploading and its simulation interval starts
HandleDocumentUpload ==
    /\ user # Null
    /\ ~IsNull(userPlan)
    /\ nextId.doc <= MaxDocs
    /\ \E i \in 1..Len(projects), file \in UploadFileTypes :
         LET pid == projects[i].id
             doc == NewDocument(nextId.doc, file, "Uploading")
         IN  /\ projects' = [projects EXCEPT ![i].documents = Append(@, doc)]
             /\ uploads' = uploads \cup
                    {[projectId |-> pid, documentId |-> nextId.doc, file |-> file]}
    /\ nextId' = [nextId EXCEPT !.doc = @ + 1]
    /\ UNCHANGED <<user, userPlan, userApiLimits, processingQueue, isProcessing,
                   isExtractingFor, job, reportGen, deriverVars, historyVars, serviceVars>>

\* the interval of one upload hitting its simulated failure
UploadFails ==
    /\ \E u \in uploads :
         /\ projects' = MapDocument(projects, u.projectId, u.documentId,
                LAMBDA d : [d EXCEPT !.status = "Error",
                                     !.error = "Network interruption during upload."])
         /\ uploads' = uploads \ {u}
    /\ UNCHANGED <<user, userPlan, userApiLimits, processingQueue, isProcessing,
                   isExtractingFor, job, reportGen, nextId, deriverVars, historyVars, serviceVars>>

\* the interval of one upload reaching 100: Uploaded, and queued
UploadCompletes ==
    /\ \E u \in uploads :
         /\ projects' = MapDocument(projects, u.projectId, u.documentId,
                LAMBDA d : [d EXCEPT !.status = "Uploaded"])
         /\ processingQueue' = Append(processingQueue, u)
         /\ uploads' = uploads \ {u}
    /\ UNCHANGED <<user, userPlan, userApiLimits, isProcessing, isExtractingFor, job,
                   reportGen, nextId, deriverVars, historyVars, serviceVars>>

\* The documents whose job is in the queue and has not been taken up
WaitingDocuments ==
    { processingQueue[i].documentId : i \in 1..Len(processingQueue) }
        \ (IF job.pc = "none" THEN {} ELSE {job.documentId})

\* The history of deletions: the deleted documents whose job was waiting
Deleted(ids) ==
    deletedWhileQueued' = deletedWhileQueued \cup (ids \cap WaitingDocuments)

HandleDeleteDocument ==
    /\ user # Null
    /\ \E i \in 1..Len(projects) : \E k \in 1..Len(projects[i].documents) :
         LET did == projects[i].documents[k].id
         IN  /\ projects' = [projects EXCEPT ![i].documents =
                                 SelectSeq(@, LAMBDA d : d.id # did)]
             /\ Deleted({did})
    /\ UNCHANGED <<user, userPlan, userApiLimits, processingQueue, isProcessing,
                   isExtractingFor, job, uploads, reportGen, nextId,
                   deriverVars, serviceVars>>

HandleDeleteProject ==
    /\ user # Null
    /\ \E i \in 1..Len(projects) :
         /\ projects' = SelectSeq(projects, LAMBDA p : p.id # projects[i].id)
         /\ Deleted({ d.id : d \in SeqToSet(projects[i].documents) })
    /\ UNCHANGED <<user, userPlan, userApiLimits, processingQueue, isProcessing,
                   isExtractingFor, job, uploads, reportGen, nextId,
                   deriverVars, serviceVars>>

\* The types the completeness checklist offers for manual assignment
ManualTypes == {"Mutation Entry"}

\* handleUpdateDocumentType: the type is appended unless the document has it.
\* The checklist offers the documents that are neither Uploading nor in Error
\* (Header.tsx:565).
HandleUpdateDocumentType ==
    /\ user # Null
    /\ \E i \in 1..Len(projects) : \E k \in 1..Len(projects[i].documents) :
       \E newType \in ManualTypes :
         /\ projects[i].documents[k].status \notin {"Uploading", "Error"}
         /\ projects' = MapDocument(projects, projects[i].id, projects[i].documents[k].id,
             LAMBDA d : IF newType \notin SeqToSet(d.docTypes)
                        THEN [d EXCEPT !.docTypes = Append(@, newType)] ELSE d)
    /\ UNCHANGED <<user, userPlan, userApiLimits, processingQueue, isProcessing,
                   isExtractingFor, job, uploads, reportGen, nextId,
                   deriverVars, historyVars, serviceVars>>

\* handleUpdateProject: prevProjects.map(p => p.id === updated.id ? updated : p)
HandleUpdateProject(projs, updated) ==
    [i \in 1..Len(projs) |-> IF projs[i].id = updated.id THEN updated ELSE projs[i]]

ReportInputTokens == 5000     \* Math.ceil(allText.length / 4) + 5000, short texts
ReportOutputTokens == 10000

\* the answers the daily_usage lookup of the STR_GEN check can get
DailyUsageReplies == { DailyUsageReply(TRUE, 0), DailyUsageReply(FALSE, 0) }

\* the three allowance checks of handleGenerateReport, made with the values c of
\* the render the handler was created in
ReportAllowed(c, daily) ==
    /\ CheckApiAllowance("STR_GEN", 1, c.user, c.userPlan, c.userApiLimits, daily)
    /\ TokensAllowed(ReportInputTokens, ReportOutputTokens, c.user, c.userPlan,
                     c.userApiLimits)

\* handleGenerateReport up to its first network call: the view's project and the
\* allowance check of this render are kept by the call.  The button is enabled
\* when no report is being generated and the project has a Processed document
\* (Header.tsx:1131).  When the values of this render let no answer of the
\* daily_usage lookup pass the checks, the handler ends without a write.
HandleGenerateReport ==
    /\ user # Null
    /\ reportGen.pc = "none"
    /\ \E i \in 1..Len(projects) :
         /\ \E k \in 1..Len(projects[i].documents) :
                projects[i].documents[k].status = "Processed"
         /\ reportGen' =
               IF \E daily \in DailyUsageReplies : ReportAllowed(Closure(FALSE), daily)
               THEN [pc |-> "call", project |-> projects[i], closure |-> Closure(FALSE)]
               ELSE NoReportGen
    /\ UNCHANGED <<user, userPlan, userApiLimits, projects, processingQueue,
                   isProcessing, isExtractingFor, job, uploads, nextId,
                   deriverVars, historyVars, serviceVars>>

ReportTexts == {"{json}", "not json", ""}

\* generateReport, reduced to the error field of its result ("" when it has none)
GenerateReport(project, reply) ==
    IF AggregatedDocs(project) = <<>>
    THEN "No processed documents found to generate report."
    ELSE IF reply.ok
    THEN CASE reply.text = "" -> "Empty response from AI."
           [] reply.text = "not json" -> "Failed to parse AI response."
           [] OTHER -> ""
    ELSE IF "429" \in reply.err \/ "RESOURCE_EXCEEDED" \in reply.err
    THEN RATE_LIMIT_EXCEEDED
    ELSE "error"

\* the allowance checks and generateReport resolving: with a result, the kept
\* project is written back with the new report; with an error, nothing is written
GenerateReportReturns ==
    /\ reportGen.pc = "call"
    /\ reportGen' = NoReportGen
    /\ \E written \in { /\ ReportAllowed(reportGen.closure, daily)
                         /\ GenerateReport(reportGen.project, reply) = "" :
                             daily \in DailyUsageReplies,
                             reply \in ProviderReplies(ReportTexts) } :
             IF written
             THEN projects' = HandleUpdateProject(projects,
                                  [reportGen.project EXCEPT !.report = "report"])
             ELSE UNCHANGED projects
    /\ UNCHANGED <<user, userPlan, userApiLimits, processingQueue, isProcessing,
                   isExtractingFor, job, uploads, nextId, deriverVars, historyVars, serviceVars>>

-----------------------------------------------------------------------------
(* The metadata deriver: runProjectDetailExtraction, handleCheckCompleteness *)
(* and the two service calls they make                                      *)

\* The scenarios of the model: the default and one of the eleven others
Scenarios == {"UNKNOWN", "FLAT_IN_SOCIETY"}

\* the table with one entry of FLAT_IN_SOCIETY left out
SCENARIO_BASED_DOCUMENTS_Short(scenario) ==
    CASE scenario = "FLAT_IN_SOCIETY" ->
            {"Sale Deed", "Society Share Certificate", "Society NOC for sale/mortgage",
             "Building Plan Approval", "Occupancy Certificate",
             "Encumbrance Certificate"}
      [] OTHER ->
            {"Sale Deed", "Mutation Entry", "Property Tax Receipt",
             "Encumbrance Certificate"}

SCENARIO_BASED_DOCUMENTS(scenario) ==
    CASE scenario = "FLAT_IN_SOCIETY" ->
            {"Sale Deed", "Society Share Certificate", "Society NOC for sale/mortgage",
             "Building Plan Approval", "Occupancy Certificate",
             "Latest Maintenance Bill", "Encumbrance Certificate"}
      [] OTHER ->
            {"Sale Deed", "Mutation Entry", "Property Tax Receipt",
             "Encumbrance Certificate"}

\* What the provider can answer to the details prompt: a JSON object naming a
\* scenario of SCENARIOS, one naming no known scenario, one without a scenario,
\* text that is no JSON, nothing
DetailTexts == {"{scenario: FLAT_IN_SOCIETY}", "{scenario: BOGUS}", "{}", "not json", ""}

\* Three more answers: an object with every field, an object with some of the
\* fields, and an object whose scenario is the name of a property every
\* JavaScript object inherits
MergeTexts ==
    DetailTexts \cup
      {"{projectName: N, propertyAddress: A, clientName: C, searchPeriod: S, scenario: FLAT_IN_SOCIETY}",
       "{projectName: N, clientName: '', scenario: UNKNOWN}",
       "{scenario: constructor}"}

\* a value the provider derived for a field
Derived == "Derived"

\* the object {}: a field that is absent reads as "", which is as falsy as undefined
NoDetails ==
    [projectName |-> "", propertyAddress |-> "", clientName |-> "",
     searchPeriod |-> "", scenario |-> ""]

\* JSON.parse(jsonText)
ParsedDetails(text) ==
    CASE text = "{scenario: FLAT_IN_SOCIETY}" ->
            [NoDetails EXCEPT !.scenario = "FLAT_IN_SOCIETY"]
      [] text = "{scenario: BOGUS}" -> [NoDetails EXCEPT !.scenario = "BOGUS"]
      [] text = "{scenario: constructor}" ->
            [NoDetails EXCEPT !.scenario = "constructor"]
      [] text = "{projectName: N, clientName: '', scenario: UNKNOWN}" ->
            [NoDetails EXCEPT !.projectName = Derived, !.scenario = "UNKNOWN"]
      [] text = "{projectName: N, propertyAddress: A, clientName: C, searchPeriod: S, scenario: FLAT_IN_SOCIETY}" ->
            [projectName |-> Derived, propertyAddress |-> Derived,
             clientName |-> Derived, searchPeriod |-> Derived,
             scenario |-> "FLAT_IN_SOCIETY"]
      [] OTHER -> NoDetails

\* JSON.parse(jsonText).scenario ("" when the object has none)
ParsedScenario(text) == ParsedDetails(text).scenario

\* what extractProjectDetailsAndScenario resolves with: the sentinel, or a details object
Details(rateLimited, d) ==
    [rateLimited |-> rateLimited, projectName |-> d.projectName,
     propertyAddress |-> d.propertyAddress, clientName |-> d.clientName,
     searchPeriod |-> d.searchPeriod, scenario |-> d.scenario]

\* extractProjectDetailsAndScenario on a non-empty text: the sentinel, or the
\* details object, which is {} after every failure
ExtractProjectDetailsAndScenario(reply) ==
    IF reply.ok
    THEN Details(FALSE, IF reply.text \in {"", "not json"} THEN NoDetails
                        ELSE ParsedDetails(reply.text))
    ELSE IF "429" \in reply.err \/ "RESOURCE_EXCEEDED" \in reply.err
    THEN Details(TRUE, NoDetails)
    ELSE Details(FALSE, NoDetails)

\* (extractedDetails.scenario && SCENARIOS[extractedDetails.scenario]) ? ... : 'UNKNOWN'
\* SCENARIOS is an object literal: SCENARIOS[key] is truthy for its own keys
\* and for the names of the properties it inherits from Object.prototype
ObjectPrototypeKeys ==
    {"constructor", "toString", "toLocaleString", "valueOf", "hasOwnProperty",
     "isPrototypeOf", "propertyIsEnumerable", "__proto__"}

MergedScenario(details) ==
    IF details.scenario # "" /\ details.scenario \in Scenarios \cup ObjectPrototypeKeys
    THEN details.scenario ELSE "UNKNOWN"

\* projectToCheck.documents.flatMap(d => d.docTypes || [])
UploadedDocTypes(project) ==
    UNION { SeqToSet(d.docTypes) : d \in SeqToSet(project.documents) }

\* What the provider can answer to the completeness prompt: the JSON array the
\* prompt asks for, text that is no JSON, nothing
CompletenessTexts == {"[missing]", "not json", ""}

\* The array the prompt of analyzeDocumentCompleteness asks for: the entries of
\* the required list that are not in the uploaded list
RequestedAnswer(uploaded, required) == required \ uploaded

\* analyzeDocumentCompleteness: the sentinel, or the list, which is [] after
\* every failure
AnalyzeDocumentCompleteness(uploaded, required, reply) ==
    IF reply.ok
    THEN [rateLimited |-> FALSE,
          missing |-> IF reply.text = "[missing]"
                      THEN RequestedAnswer(uploaded, required) ELSE {}]
    ELSE IF "429" \in reply.err \/ "RESOURCE_EXCEEDED" \in reply.err
    THEN [rateLimited |-> TRUE, missing |-> {}]
    ELSE [rateLimited |-> FALSE, missing |-> {}]

DetailsInputTokens == 3000     \* Math.ceil(allText.length / 4) || 3000
DetailsOutputTokens == 300
CompletenessInputTokens == 100
CompletenessOutputTokens == 50

\* A call in flight: the project it is for, where it waits, and the values of
\* the render its function was created in
Call(pid, pc, c) == [projectId |-> pid, pc |-> pc, closure |-> c]

AddCall(bag, call) == bag (+) SetToBag({call})
RemoveCall(bag, call) == bag (-) SetToBag({call})

\* runProjectDetailExtraction(pid) of the render that holds c, up to its first
\* network call, as the new values of isExtractingFor, derivs and checks.  ext,
\* ds and cs are the current values.  The lock is read from c; it is written
\* through a functional update, and the finally block removes pid on every way
\* out that comes after the allowance check.
RunProjectDetailExtraction(pid, c, ext, ds, cs) ==
    LET found == HasProject(c.projects, pid)
        allText == IF found THEN AggregatedDocs(FindProject(c.projects, pid)) ELSE <<>>
        same == [isExtractingFor |-> ext, derivs |-> ds, checks |-> cs]
    IN  IF pid \in c.isExtractingFor \/ c.user = Null THEN same
        ELSE IF ~TokensAllowed(DetailsInputTokens, DetailsOutputTokens, c.user,
                               c.userPlan, c.userApiLimits) THEN same
        ELSE IF ~found THEN [same EXCEPT !.isExtractingFor = ext \ {pid}]
        ELSE IF allText = <<>>
        THEN [same EXCEPT !.isExtractingFor = ext \ {pid},
                          !.checks = AddCall(cs, Call(pid, "timer", c))]
        ELSE [same EXCEPT !.isExtractingFor = ext \cup {pid},
                          !.derivs = AddCall(ds, Call(pid, "ai", c))]

\* The deriver left out: runProjectDetailExtraction changes no document and no
\* queue state
NoDeriver == UNCHANGED <<isExtractingFor, deriverVars>>

\* runProjectDetailExtraction(pid) called from a callback that holds c
Trigger(withDeriver, pid, c) ==
    IF withDeriver
    THEN LET r == RunProjectDetailExtraction(pid, c, isExtractingFor, derivs, checks)
         IN  /\ isExtractingFor' = r.isExtractingFor
             /\ derivs' = r.derivs
             /\ checks' = r.checks
    ELSE NoDeriver

-----------------------------------------------------------------------------
(* The document pipeline: the worker effect and processSingleDocument *)

SetStatus(projs, pid, did, status) ==
    MapDocument(projs, pid, did, LAMBDA d : [d EXCEPT !.status = status])

SetError(projs, pid, did, message) ==
    MapDocument(projs, pid, did,
                LAMBDA d : [d EXCEPT !.status = "Error", !.error = message])

\* the timer of the RATE_LIMITED branch is pending; isProcessing stays true.  The
\* timer callback reads nothing of the call that ended.
Backoff(j) == [NoJob EXCEPT !.pc = "backoff", !.projectId = j.projectId,
                            !.documentId = j.documentId]

\* The worker effect finding the head job's document: setIsProcessing(true) and
\* processSingleDocument up to its first network call.  A denied allowance check
\* throws RATE_LIMIT_EXCEEDED: the catch marks the document Error and the call
\* resolves to PROCESS_RATE_LIMITED.
WorkerStart(withDeriver) ==
    /\ user # Null
    /\ ~isProcessing
    /\ Len(processingQueue) > 0
    /\ LET nextItem == Head(processingQueue)
           j == [pc |-> "extract", projectId |-> nextItem.projectId,
                 documentId |-> nextItem.documentId, file |-> nextItem.file,
                 extractedText |-> NoText, closure |-> Closure(withDeriver)]
       IN  /\ HasDocument(projects, nextItem.projectId, nextItem.documentId)
           /\ isProcessing' = TRUE
           /\ IF TokensAllowed(FileTokens, ExtractOutputTokens, user, userPlan,
                               userApiLimits)
              THEN /\ projects' = SetStatus(projects, j.projectId, j.documentId,
                                            "Extracting Text")
                   /\ job' = j
              ELSE /\ projects' = SetError(projects, j.projectId, j.documentId,
                                           RATE_LIMIT_EXCEEDED)
                   /\ job' = Backoff(j)
    /\ UNCHANGED <<user, userPlan, userApiLimits, processingQueue, isExtractingFor,
                   uploads, reportGen, nextId, deriverVars, historyVars, serviceVars>>

\* The worker effect not finding the head job's document: the job is removed
WorkerDrop ==
    /\ user # Null
    /\ ~isProcessing
    /\ Len(processingQueue) > 0
    /\ LET nextItem == Head(processingQueue)
       IN  ~HasDocument(projects, nextItem.projectId, nextItem.documentId)
    /\ processingQueue' = Tail(processingQueue)
    /\ isProcessing' = FALSE
    /\ UNCHANGED <<user, userPlan, userApiLimits, projects, isExtractingFor, job,
                   uploads, reportGen, nextId, deriverVars, historyVars, serviceVars>>

\* The PROCESS_SUCCESS and PROCESS_ERROR branches of the worker: the head of the
\* queue is removed and the worker is idle again.  (On success the deriver is
\* triggered with the closure of the job.)
\* (setProcessingQueue(prev => prev.slice(1)) on an empty queue leaves it empty.)
\* a queue that gives up its newest item: prev.slice(0, -1)
SliceLast(q) == IF q = <<>> THEN <<>> ELSE SubSeq(q, 1, Len(q) - 1)

Slice1(q) == IF q = <<>> THEN <<>> ELSE Tail(q)

JobEnds ==
    /\ processingQueue' = Slice1(processingQueue)
    /\ isProcessing' = FALSE
    /\ job' = NoJob

\* extractTextFromFile resolving, and processSingleDocument up to its next
\* network call
ExtractReturns(withDeriver) ==
    /\ job.pc = "extract"
    /\ \E result \in { ExtractTextFromFile(job.file, reply) :
                            reply \in ProviderReplies(ExtractTexts) } :
         LET c == job.closure
             pid == job.projectId
             did == job.documentId
         IN  /\ IF result = RATE_LIMIT_EXCEEDED
                THEN /\ job' = Backoff(job)
                     /\ UNCHANGED <<projects, processingQueue, isProcessing>>
                     /\ NoDeriver
                ELSE IF result = UNSUPPORTED_FOR_EXTRACTION
                THEN /\ projects' = MapDocument(projects, pid, did,
                            LAMBDA d : [d EXCEPT !.status = "Unsupported",
                              !.error = "This file type can be stored but not analyzed by AI."])
                     /\ JobEnds
                     /\ Trigger(withDeriver, pid, c)
                ELSE IF StartsWithError(result)
                THEN /\ projects' = SetError(projects, pid, did, result)
                     /\ JobEnds
                     /\ NoDeriver
                ELSE IF TokensAllowed(ClassifyInputTokens, ClassifyOutputTokens,
                                      c.user, c.userPlan, c.userApiLimits)
                THEN /\ projects' = MapDocument(projects, pid, did,
                            LAMBDA d : [d EXCEPT !.extractedText = result,
                                                 !.status = "Classifying"])
                     /\ job' = [job EXCEPT !.pc = "classify", !.extractedText = result]
                     /\ UNCHANGED <<processingQueue, isProcessing>>
                     /\ NoDeriver
                ELSE /\ projects' = MapDocument(projects, pid, did,
                            LAMBDA d : [d EXCEPT !.extractedText = result,
                                                 !.status = "Error",
                                                 !.error = RATE_LIMIT_EXCEEDED])
                     /\ job' = Backoff(job)
                     /\ UNCHANGED <<processingQueue, isProcessing>>
                     /\ NoDeriver
    /\ UNCHANGED <<user, userPlan, userApiLimits, uploads, reportGen, nextId,
                   historyVars, serviceVars>>

\* classifyDocument resolving, and processSingleDocument to its end
ClassifyReturns(withDeriver) ==
    /\ job.pc = "classify"
    /\ \E docType \in { ClassifyDocument(reply) :
                             reply \in ProviderReplies(ClassifyTexts) } :
             IF docType = RATE_LIMIT_EXCEEDED
             THEN /\ job' = Backoff(job)
                  /\ UNCHANGED <<projects, processingQueue, isProcessing>>
                  /\ NoDeriver
             ELSE /\ projects' = MapDocument(projects, job.projectId, job.documentId,
                         LAMBDA d : [d EXCEPT !.docTypes = <<docType>>,
                                              !.status = "Processed"])
                  /\ JobEnds
                  /\ Trigger(withDeriver, job.projectId, job.closure)
    /\ UNCHANGED <<user, userPlan, userApiLimits, uploads, reportGen, nextId,
                   historyVars, serviceVars>>

\* a timer that also moves on to the next item
BackoffFiresAndSkips ==
    /\ job.pc = "backoff"
    /\ isProcessing' = FALSE
    /\ job' = NoJob
    /\ processingQueue' = Slice1(processingQueue)
    /\ UNCHANGED <<user, userPlan, userApiLimits, projects, isExtractingFor, uploads,
                   reportGen, nextId, deriverVars, historyVars, serviceVars>>

\* the 20 second timer of the RATE_LIMITED branch: setIsProcessing(false)
BackoffFires ==
    /\ job.pc = "backoff"
    /\ isProcessing' = FALSE
    /\ job' = NoJob
    /\ UNCHANGED <<user, userPlan, userApiLimits, projects, processingQueue,
                   isExtractingFor, uploads, reportGen, nextId,
                   deriverVars, historyVars, serviceVars>>

-----------------------------------------------------------------------------
(* The metadata deriver: the steps after the network calls *)

MaxCalls == 2    \* deriver calls in flight beyond which the user does not click

\* The button "Re-extract Project Details" of the project view: it is disabled
\* while the project is in isExtractingFor, and calls the function of the
\* current render
ManualTrigger ==
    /\ user # Null
    /\ BagCardinality(derivs) + BagCardinality(checks) < MaxCalls
    /\ \E i \in 1..Len(projects) :
         /\ projects[i].id \notin isExtractingFor
         /\ Trigger(TRUE, projects[i].id, Closure(TRUE))
    /\ UNCHANGED <<user, userPlan, userApiLimits, projects, processingQueue,
                   isProcessing, job, uploads, reportGen, nextId, historyVars, serviceVars>>

\* extractedDetails.x || p.x
OrElse(value, previous) == IF value # "" THEN value ELSE previous

\* the merge of step 6: the scenario is always written
MergeDetails(p, details) ==
    [p EXCEPT !.projectName = OrElse(details.projectName, @),
              !.propertyAddress = OrElse(details.propertyAddress, @),
              !.clientName = OrElse(details.clientName, @),
              !.searchPeriod = OrElse(details.searchPeriod, @),
              !.scenario = MergedScenario(details)]

\* extractProjectDetailsAndScenario resolving, and runProjectDetailExtraction to
\* its end.  projectWasUpdated is set inside the updater passed to setProjects
\* and read right after the call: it is set in time only when React runs the
\* updater eagerly.  The finally block releases the lock on every way out.
DeriveReturns(texts) ==
    /\ \E r \in BagToSet(derivs) :
         /\ r.pc = "ai"
         /\ \E details \in { ExtractProjectDetailsAndScenario(reply) :
                                reply \in ProviderReplies(texts) },
               eager \in BOOLEAN :
              LET pid == r.projectId
                  merged == [i \in 1..Len(projects) |->
                               IF projects[i].id = pid
                               THEN MergeDetails(projects[i], details)
                               ELSE projects[i]]
                  projectWasUpdated == eager /\ merged # projects
              IN  IF details.rateLimited
                  THEN /\ derivs' = AddCall(RemoveCall(derivs, r),
                                            [r EXCEPT !.pc = "retryWait"])
                       /\ UNCHANGED <<projects, checks>>
                  ELSE /\ projects' = merged
                       /\ derivs' = RemoveCall(derivs, r)
                       /\ checks' = IF projectWasUpdated
                                    THEN AddCall(checks, Call(pid, "timer", r.closure))
                                    ELSE checks
         /\ isExtractingFor' = isExtractingFor \ {r.projectId}
    /\ UNCHANGED <<user, userPlan, userApiLimits, processingQueue, isProcessing,
                   job, uploads, reportGen, nextId, historyVars, serviceVars>>

\* the 20 second timer of step 5: the function that set the timer is called again
RetryFires ==
    /\ \E r \in BagToSet(derivs) :
         /\ r.pc = "retryWait"
         /\ LET x == RunProjectDetailExtraction(r.projectId, r.closure, isExtractingFor,
                                                RemoveCall(derivs, r), checks)
            IN  /\ isExtractingFor' = x.isExtractingFor
                /\ derivs' = x.derivs
                /\ checks' = x.checks
    /\ UNCHANGED <<user, userPlan, userApiLimits, projects, processingQueue,
                   isProcessing, job, uploads, reportGen, nextId, historyVars, serviceVars>>

\* the 100 ms timer of handleCheckCompleteness, up to the network call: the
\* project is looked up in the projects of the render the function was created in
CheckTimerFires ==
    /\ \E r \in BagToSet(checks) :
         /\ r.pc = "timer"
         /\ LET c == r.closure
            IN  checks' =
                  IF /\ HasProject(c.projects, r.projectId)
                     /\ c.user # Null
                     /\ TokensAllowed(CompletenessInputTokens, CompletenessOutputTokens,
                                      c.user, c.userPlan, c.userApiLimits)
                  THEN AddCall(RemoveCall(checks, r), [r EXCEPT !.pc = "ai"])
                  ELSE RemoveCall(checks, r)
    /\ UNCHANGED <<user, userPlan, userApiLimits, projects, processingQueue,
                   isProcessing, isExtractingFor, job, uploads, reportGen, nextId,
                   derivs, historyVars, serviceVars>>

\* analyzeDocumentCompleteness answering the call r with result
CheckCompletes(r, result) ==
    /\ r \in BagToSet(checks)
    /\ r.pc = "ai"
    /\ checks' = RemoveCall(checks, r)
    /\ projects' =
          IF result.rateLimited THEN projects
          ELSE [i \in 1..Len(projects) |->
                  IF projects[i].id = r.projectId
                  THEN [projects[i] EXCEPT !.missingDocuments = result.missing]
                  ELSE projects[i]]
    /\ UNCHANGED <<user, userPlan, userApiLimits, processingQueue, isProcessing,
                   isExtractingFor, job, uploads, reportGen, nextId, derivs,
                   historyVars, serviceVars>>

\* the results analyzeDocumentCompleteness can give the call r
CompletenessResults(r) ==
    LET project == FindProject(r.closure.projects, r.projectId)
    IN  { AnalyzeDocumentCompleteness(UploadedDocTypes(project),
                                      SCENARIO_BASED_DOCUMENTS(project.scenario), reply) :
            reply \in ProviderReplies(CompletenessTexts) }

CheckReturns ==
    \E r \in BagToSet(checks) :
        /\ r.pc = "ai"
        /\ \E result \in CompletenessResults(r) : CheckCompletes(r, result)

-----------------------------------------------------------------------------
(* The pipeline specification: session, projects, uploads, deletions, the  *)
(* worker and report generation.  Left out are the deriver and the manual  *)
(* type assignment, which write no status, no text and no queue.           *)

Next ==
    \/ SignedIn
    \/ SignedOut
    \/ FetchUserPlanAndLimitsDone(FetchedLimits)
    \/ HandleCreateProject(BatchSizes)
    \/ HandleDocumentUpload
    \/ UploadFails
    \/ UploadCompletes
    \/ HandleDeleteDocument
    \/ HandleDeleteProject
    \/ HandleGenerateReport
    \/ GenerateReportReturns
    \/ WorkerStart(FALSE)
    \/ WorkerDrop
    \/ ExtractReturns(FALSE)
    \/ ClassifyReturns(FALSE)
    \/ BackoffFires

Spec == Init /\ [][Next]_vars

-----------------------------------------------------------------------------
(* The project view of a returning user: the store holds a project with a  *)
(* processed document; the user signs in, adds files to it and generates   *)
(* reports while the worker runs.                                          *)

InitView == Mounted(<<StoredProject>>)

NextView ==
    \/ SignedIn
    \/ FetchUserPlanAndLimitsDone(FetchedLimits)
    \/ HandleDocumentUpload
    \/ UploadFails
    \/ UploadCompletes
    \/ HandleGenerateReport
    \/ GenerateReportReturns
    \/ WorkerStart(FALSE)
    \/ WorkerDrop
    \/ ExtractReturns(FALSE)
    \/ ClassifyReturns(FALSE)
    \/ BackoffFires

SpecView == InitView /\ [][NextView]_vars

-----------------------------------------------------------------------------
(* The deriver specification: a user with an unused ledger creates a       *)
(* project of one file; the document that finishes triggers the deriver,   *)
(* and the user triggers it by hand.                                       *)

NextDeriver ==
    \/ SignedIn
    \/ FetchUserPlanAndLimitsDone({UnusedLimits})
    \/ HandleCreateProject(SingleFile)
    \/ WorkerStart(TRUE)
    \/ ExtractReturns(TRUE)
    \/ ClassifyReturns(TRUE)
    \/ BackoffFires
    \/ ManualTrigger
    \/ DeriveReturns(DetailTexts)
    \/ RetryFires
    \/ CheckTimerFires
    \/ CheckReturns

SpecDeriver == Init /\ [][NextDeriver]_vars

-----------------------------------------------------------------------------
(* The allowance check on its own: checkApiAllowance called in a render     *)
(* with any ledger, for any usage type.                                     *)

UsageTypes == {"STR_GEN", "TOKENS_INPUT", "TOKENS_OUTPUT", "FILE_SIZE_DOC",
               "FILE_SIZE_TOTAL"}

\* the values asked for: one unit, and more than any file-size limit of the plan
AllowanceValues == {1, PlanMaxTotalUploadMb + 1}

\* the rows of api_limits a render can hold: any STR count up to the plan's
LoadedLimits == { ApiLimits(n, 0, 0) : n \in 0..PlanMaxStrsPerMonth }

\* the answers of the daily_usage lookup: an error, or today's count
DailyLookupReplies ==
    { DailyUsageReply(failed, n) : failed \in BOOLEAN, n \in 0..PlanMaxStrsPerDay }

InitAllowance ==
    /\ user \in {Null, UserId}
    /\ userPlan \in {None, Some(BasicPlan)}
    /\ userApiLimits \in {None} \cup { Some(row) : row \in LoadedLimits }
    /\ AppMounted(<<>>)
    /\ ServicesIdle

\* the STR_GEN case reaches its daily_usage lookup: the ledger is loaded and the
\* monthly check passed (if (isAllowed), App.tsx:415)
NeedsDailyLookup(usageType, value, c) ==
    /\ usageType = "STR_GEN"
    /\ ~(IsNull(c.userApiLimits) \/ IsNull(c.userPlan) \/ c.user = Null)
    /\ ~(Get(c.userApiLimits).strs_used_monthly + value
            > Get(c.userPlan).max_strs_per_month)

\* checkApiAllowance called, up to its lookup of daily_usage or to its end
CheckApiAllowanceCalled ==
    /\ allowance.pc = "idle"
    /\ \E usageType \in UsageTypes, value \in AllowanceValues :
         LET c == Closure(FALSE)
             call == [NoAllowanceCall EXCEPT !.usageType = usageType,
                                             !.value = value, !.closure = c]
         IN  allowance' =
                IF NeedsDailyLookup(usageType, value, c)
                THEN [call EXCEPT !.pc = "lookup"]
                ELSE [call EXCEPT !.pc = "done",
                         !.result = CheckApiAllowance(usageType, value, c.user,
                                        c.userPlan, c.userApiLimits, NoDailyUsage)]
    /\ UNCHANGED <<pipelineVars, deriverVars, historyVars, apiLimitsRow, logCalls,
                   logged, savedData, loaded, accountVars>>

\* the daily_usage lookup answering, and checkApiAllowance to its end
DailyUsageAnswers ==
    /\ allowance.pc = "lookup"
    /\ \E daily \in DailyLookupReplies :
         LET c == allowance.closure
         IN  allowance' = [allowance EXCEPT !.pc = "done", !.daily = daily,
                 !.result = CheckApiAllowance(allowance.usageType, allowance.value,
                                c.user, c.userPlan, c.userApiLimits, daily)]
    /\ UNCHANGED <<pipelineVars, deriverVars, historyVars, apiLimitsRow, logCalls,
                   logged, savedData, loaded, accountVars>>

NextAllowance ==
    \/ CheckApiAllowanceCalled
    \/ DailyUsageAnswers

SpecAllowance == InitAllowance /\ [][NextAllowance]_vars

-----------------------------------------------------------------------------
(* The usage log on its own: logAiCall calls of the pipeline, the deriver,  *)
(* the completeness check and report generation overlapping on the user's   *)
(* api_limits row.  No monthly reset happens.                               *)

MaxLogCalls == 3    \* logAiCall calls made in one behaviour

LogEndpoints == {"classifyDocument", "extractProjectDetailsAndScenario",
                 "analyzeDocumentCompleteness", "generateReport", "reformatReport"}

\* promptTokens and completionTokens of a call (actual || estimated): the model
\* takes the estimates the caller passes
PromptTokens(endpoint) ==
    CASE endpoint = "classifyDocument" -> ClassifyInputTokens
      [] endpoint = "extractProjectDetailsAndScenario" -> DetailsInputTokens
      [] endpoint = "analyzeDocumentCompleteness" -> CompletenessInputTokens
      [] OTHER -> ReportInputTokens

CompletionTokens(endpoint) ==
    CASE endpoint = "classifyDocument" -> ClassifyOutputTokens
      [] endpoint = "extractProjectDetailsAndScenario" -> DetailsOutputTokens
      [] endpoint = "analyzeDocumentCompleteness" -> CompletenessOutputTokens
      [] OTHER -> ReportOutputTokens

\* a count that also takes the reformatting of a report for a generation
StrCountIncrementAnyReport(endpoint) ==
    IF endpoint \in {"generateReport", "reformatReport"} THEN 1 ELSE 0

StrCountIncrement(endpoint) == IF endpoint = "generateReport" THEN 1 ELSE 0

\* a logAiCall call in flight: where it waits, and the rows it has read
LogCall(endpoint, pc, current) ==
    [endpoint |-> endpoint, pc |-> pc, current |-> current, daily |-> 0]

\* the row inserted into ai_usage
AuditRecord(endpoint, success) == [api_endpoint_type |-> endpoint, success |-> success]

\* logAiCall up to its read of daily_usage: the insert into ai_usage.  A call
\* with success = false ends without accounting.
LogAiCallStarts ==
    /\ logged < MaxLogCalls
    /\ logged' = logged + 1
    /\ \E endpoint \in LogEndpoints, success \in BOOLEAN :
         /\ aiUsage' = Append(aiUsage, AuditRecord(endpoint, success))
         /\ logCalls' = IF success
                        THEN AddCall(logCalls, LogCall(endpoint, "readDaily", UnusedLimits))
                        ELSE logCalls
    /\ UNCHANGED <<pipelineVars, deriverVars, historyVars, allowance, apiLimitsRow,
                   savedData, loaded, calendar, dailyUsage>>

\* the select on daily_usage answering: after an error the upsert is skipped
LogAiCallReadsDaily ==
    /\ \E r \in BagToSet(logCalls), failed \in BOOLEAN :
         /\ r.pc = "readDaily"
         /\ logCalls' = AddCall(RemoveCall(logCalls, r),
                                IF failed THEN [r EXCEPT !.pc = "read"]
                                ELSE [r EXCEPT !.pc = "updateDaily", !.daily = dailyUsage])
    /\ UNCHANGED <<pipelineVars, deriverVars, historyVars, allowance, apiLimitsRow,
                   logged, savedData, loaded, accountVars>>

\* the upsert of daily_usage: str_count becomes the value read plus the
\* increment of this call
LogAiCallUpdatesDaily ==
    /\ \E r \in BagToSet(logCalls), failed \in BOOLEAN :
         /\ r.pc = "updateDaily"
         /\ logCalls' = AddCall(RemoveCall(logCalls, r), [r EXCEPT !.pc = "read"])
         /\ dailyUsage' = IF failed THEN dailyUsage
                          ELSE r.daily + StrCountIncrement(r.endpoint)
    /\ UNCHANGED <<pipelineVars, deriverVars, historyVars, allowance, apiLimitsRow,
                   logged, savedData, loaded, calendar, aiUsage>>

\* the select on api_limits answering: the call keeps the row it read
LogAiCallReadsLimits ==
    /\ \E r \in BagToSet(logCalls), failed \in BOOLEAN :
         /\ r.pc = "read"
         /\ logCalls' = IF failed THEN RemoveCall(logCalls, r)
                        ELSE AddCall(RemoveCall(logCalls, r),
                                     [r EXCEPT !.pc = "update", !.current = apiLimitsRow])
    /\ UNCHANGED <<pipelineVars, deriverVars, historyVars, allowance, apiLimitsRow,
                   logged, savedData, loaded, accountVars>>

\* the update of api_limits: the counters become the values read plus the usage
\* of this call
LogAiCallUpdatesLimits ==
    /\ \E r \in BagToSet(logCalls), failed \in BOOLEAN :
         /\ r.pc = "update"
         /\ logCalls' = RemoveCall(logCalls, r)
         /\ apiLimitsRow' =
               IF failed THEN apiLimitsRow
               ELSE ApiLimits(
                      r.current.strs_used_monthly + StrCountIncrement(r.endpoint),
                      r.current.input_tokens_used_monthly + PromptTokens(r.endpoint),
                      r.current.output_tokens_used_monthly + CompletionTokens(r.endpoint))
    /\ UNCHANGED <<pipelineVars, deriverVars, historyVars, allowance, logged,
                   savedData, loaded, accountVars>>

InitLedger ==
    /\ user = UserId
    /\ userPlan = Some(BasicPlan)
    /\ userApiLimits = Some(UnusedLimits)
    /\ AppMounted(<<>>)
    /\ ServicesIdle

NextLedger ==
    \/ LogAiCallStarts
    \/ LogAiCallReadsDaily
    \/ LogAiCallUpdatesDaily
    \/ LogAiCallReadsLimits
    \/ LogAiCallUpdatesLimits

SpecLedger == InitLedger /\ [][NextLedger]_vars

-----------------------------------------------------------------------------
(* The snapshot loader on its own: the initializer of the projects state    *)
(* (App.tsx:52-131) applied to any stored item.                             *)

MaxEntries == 3     \* entries of a stored list

\* A JSON value found where a project or a document is expected: null, a
\* number, or an object with or without an id
JsonNull == [kind |-> "null", id |-> None]
JsonNumber == [kind |-> "number", id |-> None]

StoredDoc(id, status, docTypes, docType) ==
    [kind |-> "object", id |-> id, fileType |-> "application/pdf", status |-> status,
     extractedText |-> NoText, docTypes |-> docTypes, docType |-> docType, error |-> ""]

\* documents of a stored project: a list, or a value that is no list
DocList(entries) == [kind |-> "array", entries |-> entries]
NoDocList == [kind |-> "null", entries |-> <<>>]

StoredEntry(id, scenario, documents) ==
    [kind |-> "object", id |-> id, scenario |-> scenario, documents |-> documents]

\* a stored document that went through extraction
WithText(doc) == [doc EXCEPT !.extractedText = "TEXT"]

\* The project entries of the stored lists: null, a number, an object without
\* an id, a project whose documents hold a malformed entry, a document
\* interrupted in flight and a document with the legacy docType field, a
\* project with an unknown scenario whose documents are no list, and a project
\* with a document in every status the persistence effect can have written
SavedEntries ==
    { [JsonNull EXCEPT !.id = None],
      [JsonNumber EXCEPT !.id = None],
      StoredEntry(None, "UNKNOWN", DocList(<<>>)),
      StoredEntry(Some(1), "FLAT_IN_SOCIETY",
                  DocList(<< [kind |-> "null", id |-> None],
                             StoredDoc(Some(1), "Classifying", <<>>, ""),
                             StoredDoc(Some(2), "Processed", <<>>, "Sale Deed") >>)),
      StoredEntry(Some(2), "BOGUS", NoDocList),
      StoredEntry(Some(3), "UNKNOWN",
                  DocList(<< StoredDoc(Some(3), "Uploading", <<>>, ""),
                             StoredDoc(Some(4), "Uploaded", <<>>, ""),
                             WithText(StoredDoc(Some(5), "Extracting Text", <<>>, "")),
                             WithText(StoredDoc(Some(6), "Processed",
                                                <<"Sale Deed", "Other">>, "")),
                             StoredDoc(Some(7), "Unsupported", <<"Unsupported">>, ""),
                             [StoredDoc(Some(8), "Error", <<>>, "") EXCEPT
                                 !.error = "Classification failed."] >>)) }

Lists(n) == UNION { [1..k -> SavedEntries] : k \in 0..n }

\* What localStorage can hold under STORAGE_KEY: nothing, text that is no JSON,
\* JSON that is no array, an array
SavedItems ==
    { [kind |-> k, entries |-> <<>>] : k \in {"absent", "unparsable", "object"} }
      \cup { [kind |-> "array", entries |-> l] : l \in Lists(MaxEntries) }

\* !project || typeof project !== 'object' || !project.id
IsMalformedEntry(entry) == entry.kind # "object" \/ IsNull(entry.id)

\* a list of in-flight statuses that forgets the documents waiting in the queue
TransientStatusesWithoutUploaded == {"Uploading", "Extracting Text", "Classifying"}

TransientStatuses == {"Uploading", "Uploaded", "Extracting Text", "Classifying"}

\* the map over the documents of a stored project: the legacy docType joins
\* docTypes, a document that was in flight becomes Error
LoadDocument(doc) ==
    LET finalTypes == IF doc.docType # "" /\ doc.docType \notin SeqToSet(doc.docTypes)
                      THEN Append(doc.docTypes, doc.docType) ELSE doc.docTypes
        interrupted == doc.status \in TransientStatuses
    IN  [id |-> Get(doc.id), fileType |-> doc.fileType,
         status |-> IF interrupted THEN "Error" ELSE doc.status,
         extractedText |-> doc.extractedText, docTypes |-> finalTypes,
         error |-> IF interrupted THEN "Processing was interrupted. Please re-upload."
                   ELSE doc.error]

\* the object pushed for a valid entry
LoadProject(project) ==
    LET documents == IF project.documents.kind = "array"
                     THEN project.documents.entries ELSE <<>>
        kept == SelectSeq(documents, LAMBDA d : ~IsMalformedEntry(d))
    IN  [NewProject(Get(project.id), SeqMap(kept, LoadDocument)) EXCEPT
            !.scenario = IF project.scenario \in Scenarios
                         THEN project.scenario ELSE "UNKNOWN"]

\* a loader that gives up at the first malformed entry
RECURSIVE LoadedUpToFirstBad(_)
LoadedUpToFirstBad(entries) ==
    IF entries = <<>> \/ IsMalformedEntry(Head(entries)) THEN <<>>
    ELSE <<LoadProject(Head(entries))>> \o LoadedUpToFirstBad(Tail(entries))

\* parsedData.reduce(...): malformed entries are skipped, the others pushed in
\* order
RECURSIVE LoadedProjects(_)
LoadedProjects(entries) ==
    IF entries = <<>> THEN <<>>
    ELSE IF IsMalformedEntry(Head(entries)) THEN LoadedProjects(Tail(entries))
    ELSE <<LoadProject(Head(entries))>> \o LoadedProjects(Tail(entries))

\* the initializer: [] when nothing is stored, when JSON.parse throws (the
\* catch returns []) and when the value is no array
LoadStoredProjects(saved) ==
    IF saved.kind = "array" THEN LoadedProjects(saved.entries) ELSE <<>>

InitLoader ==
    /\ user = Null
    /\ userPlan = None
    /\ userApiLimits = None
    /\ AppMounted(<<>>)
    /\ allowance = NoAllowanceCall
    /\ apiLimitsRow = UnusedLimits
    /\ logCalls = EmptyBag
    /\ logged = 0
    /\ AccountsIdle
    /\ savedData \in SavedItems
    /\ loaded = NotLoaded

\* App mounts: useState runs the initializer
ProjectsInitializerRuns ==
    /\ ~loaded.done
    /\ loaded' = [done |-> TRUE, threw |-> FALSE,
                  projects |-> LoadStoredProjects(savedData)]
    /\ projects' = LoadStoredProjects(savedData)
    /\ UNCHANGED <<user, userPlan, userApiLimits, processingQueue, isProcessing,
                   isExtractingFor, job, uploads, reportGen, nextId, deriverVars,
                   historyVars, allowance, apiLimitsRow, logCalls, logged, savedData,
                   accountVars>>

NextLoader == ProjectsInitializerRuns

SpecLoader == InitLoader /\ [][NextLoader]_vars

-----------------------------------------------------------------------------
(* Claims about the document pipeline *)

InFlightStatuses == {"Extracting Text", "Classifying"}

InFlightDocuments == { d \in AllDocuments(projects) : d.status \in InFlightStatuses }

\* C1: at every moment at most one document, across all projects, has status
\* Extracting Text or Classifying.
C1_AtMostOneInFlight == Cardinality(InFlightDocuments) <= 1

\* C2 (first half): a document deleted while its job was waiting in the queue
\* is never taken up by processSingleDocument: its job makes no AI call and
\* marks nothing as Error.
C2_DeletedJobNeverProcessed ==
    job.pc # "none" => job.documentId \notin deletedWhileQueued

\* the status of a document, "absent" when the project or the document is gone
StatusOf(projs, pid, did) ==
    IF HasDocument(projs, pid, did)
    THEN LET docs == FindProject(projs, pid).documents
         IN  docs[CHOOSE k \in 1..Len(docs) : docs[k].id = did].status
    ELSE "absent"

\* A step of the worker on the head job in which its document becomes Error
HeadJobFails ==
    /\ job' # job
    /\ processingQueue # <<>>
    /\ LET h == Head(processingQueue)
       IN  /\ StatusOf(projects, h.projectId, h.documentId) # "Error"
           /\ StatusOf(projects', h.projectId, h.documentId) = "Error"

\* C3: whenever processing the head job ends with its document marked Error (an
\* error string from extraction or any exception), the same step removes the
\* job from the queue and leaves the worker idle for the next job.
C3_FailedJobIsRemoved ==
    [][HeadJobFails => /\ processingQueue' = Tail(processingQueue)
                       /\ ~isProcessing']_vars

\* C4: every Processed document has a non-empty extractedText and exactly one
\* docTypes entry, which is a member of the classification vocabulary.
C4_ProcessedIsClassified ==
    \A d \in AllDocuments(projects) :
        d.status = "Processed" =>
            /\ d.extractedText # NoText
            /\ Len(d.docTypes) = 1
            /\ d.docTypes[1] \in DocumentTypeSet

-----------------------------------------------------------------------------
(* Claims about the metadata deriver *)

\* the number of extractProjectDetailsAndScenario calls in flight for a project
DerivationsInFlight(pid) ==
    BagCardinality([r \in { x \in BagToSet(derivs) : x.projectId = pid /\ x.pc = "ai" }
                      |-> CopiesIn(r, derivs)])

\* C5: at no time are two metadata derivations in flight for the same project.
C5_OneDerivationPerProject ==
    \A i \in 1..Len(projects) : DerivationsInFlight(projects[i].id) <= 1


\* a completeness run for pid ends in this step with a result that is not the
\* rate-limit sentinel
CompletenessRunCompletes(pid) ==
    \E r \in BagToSet(checks) :
        /\ r.projectId = pid
        /\ r.pc = "ai"
        /\ \E result \in CompletenessResults(r) :
              ~result.rateLimited /\ CheckCompletes(r, result)

\* missingDocuments of p is the required list of its scenario minus the types
\* of its documents
MissingIsDifference(p) ==
    p.missingDocuments = SCENARIO_BASED_DOCUMENTS(p.scenario) \ UploadedDocTypes(p)

\* C6: after a completeness run that completes for a project, the project's
\* missingDocuments is exactly the required list of its current scenario minus
\* the union of docTypes over its current documents.
C6_MissingIsRequiredMinusUploaded ==
    [][\A i \in 1..Len(projects) :
          CompletenessRunCompletes(projects[i].id) =>
              MissingIsDifference(FindProject(projects', projects[i].id))]_vars


-----------------------------------------------------------------------------
(* Claims about the quota ledger *)

\* a checkApiAllowance('STR_GEN', 1) call has returned
StrAllowanceDecided ==
    /\ allowance.pc = "done"
    /\ allowance.usageType = "STR_GEN"
    /\ allowance.value = 1

\* user, plan and limits of the render that made the call are loaded
LedgerLoaded ==
    LET c == allowance.closure
    IN  ~(IsNull(c.userApiLimits) \/ IsNull(c.userPlan) \/ c.user = Null)

MonthlyStrExceeded ==
    Get(allowance.closure.userApiLimits).strs_used_monthly + 1
        > Get(allowance.closure.userPlan).max_strs_per_month

DailyStrExceeded ==
    allowance.daily.str_count + 1 > Get(allowance.closure.userPlan).max_strs_per_day

\* C7 as stated: the STR allowance check with value 1 returns false exactly when
\* the monthly STR count plus one exceeds the plan's monthly maximum or today's
\* count plus one exceeds the daily maximum, and true in every other case.
C7_FalseIffOverLimit ==
    StrAllowanceDecided =>
        (allowance.result = ~(LedgerLoaded /\ (MonthlyStrExceeded \/ DailyStrExceeded)))

\* C7 amended: the STR allowance check with value 1 returns false exactly when
\* user, plan or limits are not loaded, or the monthly count plus one exceeds
\* the monthly maximum, or the daily-usage lookup fails, or today's count plus
\* one exceeds the daily maximum; it returns true in every other case.
C7_FalseIffOverLimitOrUnknown ==
    StrAllowanceDecided =>
        (allowance.result = ~(\/ ~LedgerLoaded
                              \/ MonthlyStrExceeded
                              \/ allowance.daily.error
                              \/ DailyStrExceeded))

\* the check has answered false for a loaded ledger under both limits, because
\* the daily-usage lookup failed
C7_DeniedOnFailedLookup ==
    /\ StrAllowanceDecided
    /\ LedgerLoaded
    /\ ~MonthlyStrExceeded
    /\ ~DailyStrExceeded
    /\ allowance.daily.error
    /\ ~allowance.result

\* C8: within a reset period no monthly counter of the api_limits row ever
\* decreases, however the usage-accounting calls overlap.
C8_MonthlyCountersNeverDecrease ==
    [][/\ apiLimitsRow'.strs_used_monthly >= apiLimitsRow.strs_used_monthly
       /\ apiLimitsRow'.input_tokens_used_monthly
              >= apiLimitsRow.input_tokens_used_monthly
       /\ apiLimitsRow'.output_tokens_used_monthly
              >= apiLimitsRow.output_tokens_used_monthly]_vars

-----------------------------------------------------------------------------
(* Claims about the project store *)

\* the entries of a stored list that are objects with an id
HasId(entry) == entry.kind = "object" /\ entry.id # None

\* C9: loading a stored list yields exactly its valid projects (the objects
\* with an id), in stored order, and no exception escapes; a stored item that
\* is unparsable or no list yields the empty collection.
C9_LoaderKeepsValidProjects ==
    loaded.done =>
        /\ ~loaded.threw
        /\ IF savedData.kind = "array"
           THEN SeqMap(loaded.projects, LAMBDA p : p.id)
                  = SeqMap(SelectSeq(savedData.entries, HasId), LAMBDA e : Get(e.id))
           ELSE loaded.projects = <<>>

\* a list with a malformed entry in front of a valid one has been loaded
C9_LoadedPastMalformedEntry ==
    /\ loaded.done
    /\ savedData.kind = "array"
    /\ Len(savedData.entries) >= 2
    /\ ~HasId(savedData.entries[1])
    /\ HasId(savedData.entries[2])
    /\ Len(loaded.projects) >= 1

\* the documents of a stored project that the loader keeps: objects with an id
StoredDocuments(entry) ==
    IF entry.documents.kind = "array"
    THEN SelectSeq(entry.documents.entries, HasId) ELSE <<>>

SettledStatuses == {"Processed", "Unsupported", "Error"}

\* the type set of a stored document after the legacy single-type field has
\* joined it
MigratedTypes(doc) ==
    IF doc.docType = "" \/ \E i \in 1..Len(doc.docTypes) : doc.docTypes[i] = doc.docType
    THEN doc.docTypes ELSE doc.docTypes \o <<doc.docType>>

\* the stored documents and the loaded ones, pair by pair: P(stored, loaded)
\* holds of every pair
LoadedPairwise(P(_, _)) ==
    loaded.done /\ savedData.kind = "array" =>
        LET stored == SelectSeq(savedData.entries, HasId)
        IN  /\ Len(loaded.projects) = Len(stored)
            /\ \A k \in 1..Len(stored) :
                  LET before == StoredDocuments(stored[k])
                      after == loaded.projects[k].documents
                  IN  /\ Len(after) = Len(before)
                      /\ \A j \in 1..Len(before) : P(before[j], after[j])

InterruptedBecomesError(before, after) ==
    /\ after.status \notin {"Uploading", "Uploaded", "Extracting Text", "Classifying"}
    /\ before.status \in {"Uploading", "Uploaded", "Extracting Text", "Classifying"} =>
          /\ after.status = "Error"
          /\ after.error = "Processing was interrupted. Please re-upload."

\* C26 as stated: after the load no document is Uploading, Uploaded,
\* Extracting Text or Classifying, a document stored in one of those statuses
\* is an Error with the interrupted-processing message, and a document stored
\* as Processed, Unsupported or Error has the status, the extractedText and
\* the docTypes it was stored with.
C26_SettledKeepStoredTypes ==
    LoadedPairwise(LAMBDA before, after :
        /\ InterruptedBecomesError(before, after)
        /\ before.status \in SettledStatuses =>
              /\ after.status = before.status
              /\ after.extractedText = before.extractedText
              /\ after.docTypes = before.docTypes)

\* C26 amended: as above, but the docTypes of a document stored as Processed,
\* Unsupported or Error are the stored ones with the legacy single type
\* appended when it is not among them.
C26_InterruptedBecomeErrorSettledKept ==
    LoadedPairwise(LAMBDA before, after :
        /\ InterruptedBecomesError(before, after)
        /\ before.status \in SettledStatuses =>
              /\ after.status = before.status
              /\ after.extractedText = before.extractedText
              /\ after.docTypes = MigratedTypes(before))

\* a project stored with documents in every status has been loaded: the ones
\* in flight are errors, the processed one kept its text and both its types
C26_LoadedEveryStatus ==
    /\ loaded.done
    /\ \E k \in 1..Len(loaded.projects) :
          LET docs == loaded.projects[k].documents
          IN  /\ loaded.projects[k].id = 3
              /\ Len(docs) = 6
              /\ \A j \in 1..3 : docs[j].status = "Error"
              /\ docs[3].extractedText = "TEXT"
              /\ docs[4].status = "Processed"
              /\ docs[4].extractedText = "TEXT"
              /\ docs[4].docTypes = <<"Sale Deed", "Other">>
              /\ docs[5].status = "Unsupported"
              /\ docs[6].error = "Classification failed."

-----------------------------------------------------------------------------
(* Claims about the session *)

\* C10: a sign-out clears plan and limits, empties the processing queue, leaves
\* the worker idle and empties the set of projects whose details are being
\* extracted.
C10_SignOutClearsPipeline ==
    [][(user # Null /\ user' = Null) =>
          /\ userPlan' = None
          /\ userApiLimits' = None
          /\ processingQueue' = <<>>
          /\ ~isProcessing'
          /\ isExtractingFor' = {}]_vars


-----------------------------------------------------------------------------
(* Claims about the queue and the worker *)

\* the step appends to the queue
Enqueues ==
    /\ Len(processingQueue') > Len(processingQueue)
    /\ SubSeq(processingQueue', 1, Len(processingQueue)) = processingQueue

\* the step is the worker's: a job in flight ends, or the worker finds the
\* head job's document gone
WorkerRemovesHead ==
    /\ processingQueue # <<>>
    /\ processingQueue' = Tail(processingQueue)
    /\ ~isProcessing'
    /\ \/ job.pc \in {"extract", "classify"} /\ job'.pc = "none"
       \/ /\ job.pc = "none" /\ ~isProcessing
          /\ ~HasDocument(projects, Head(processingQueue).projectId,
                          Head(processingQueue).documentId)

\* the step starts processSingleDocument: no job was being worked, and one is
\* (or its start was denied and its backoff timer runs)
JobStarts == job.pc = "none" /\ job'.pc # "none"

\* C11: jobs are started in the order they were enqueued: the queue changes only
\* by an append at its tail or by the worker removing its head, the job that
\* is started is the head of the queue, and no job is started while another is
\* being worked.
C11_FifoSingleWorker ==
    [][/\ processingQueue' # processingQueue => (Enqueues \/ WorkerRemovesHead)
       /\ JobStarts => /\ processingQueue # <<>>
                       /\ job'.documentId = Head(processingQueue).documentId
                       /\ job'.projectId = Head(processingQueue).projectId
       /\ job' # job /\ job'.pc = "extract" => JobStarts
       /\ ~isProcessing' => job'.pc = "none"]_vars

\* the second job of the queue is being worked after the first was removed
C11_SecondJobAfterFirst ==
    /\ job.pc \in {"extract", "classify"}
    /\ job.documentId = 2
    /\ processingQueue # <<>>
    /\ Head(processingQueue).documentId = 2
    /\ StatusOf(projects, job.projectId, 1) \in {"Processed", "Error", "Unsupported"}


-----------------------------------------------------------------------------
(* Claims about the completeness check *)

\* the completeness calls waiting for the AI whose project is a flat in a
\* society with Sale Deed as the only uploaded type
FlatWithSaleDeedChecks ==
    { r \in BagToSet(checks) :
        /\ r.pc = "ai"
        /\ FindProject(r.closure.projects, r.projectId).scenario = "FLAT_IN_SOCIETY"
        /\ UploadedDocTypes(FindProject(r.closure.projects, r.projectId)) = {"Sale Deed"} }

\* required list minus uploaded types, as the call r sends them
MissingOf(r) ==
    LET project == FindProject(r.closure.projects, r.projectId)
    IN  RequestedAnswer(UploadedDocTypes(project),
                        SCENARIO_BASED_DOCUMENTS(project.scenario))

\* C12 as stated: for FLAT_IN_SOCIETY with Sale Deed as the only uploaded type,
\* the required list minus the uploaded types has exactly five entries.
C12_FiveMissing ==
    \A r \in FlatWithSaleDeedChecks : Cardinality(MissingOf(r)) = 5

\* C12 amended: for FLAT_IN_SOCIETY with Sale Deed as the only uploaded type,
\* the required list minus the uploaded types has exactly six entries.
C12_SixMissing ==
    \A r \in FlatWithSaleDeedChecks : Cardinality(MissingOf(r)) = 6

\* a completeness call for such a project is waiting for the AI
C12_FlatWithSaleDeedChecked == FlatWithSaleDeedChecks # {}


-----------------------------------------------------------------------------
(* Claims about allowance denials and rate limits in the pipeline *)

\* the error message of a document, "absent" when the document is gone
ErrorOf(projs, pid, did) ==
    IF HasDocument(projs, pid, did)
    THEN LET docs == FindProject(projs, pid).documents
         IN  docs[CHOOSE k \in 1..Len(docs) : docs[k].id = did].error
    ELSE "absent"

\* A step of the worker in which an allowance check before extraction or
\* before classification denies the token budget of the head job: its document
\* becomes Error with the message of the denial
AllowanceDenied ==
    /\ job' # job
    /\ processingQueue # <<>>
    /\ LET h == Head(processingQueue)
       IN  /\ StatusOf(projects, h.projectId, h.documentId)
                 \in {"Uploaded", "Extracting Text"}
           /\ StatusOf(projects', h.projectId, h.documentId) = "Error"
           /\ ErrorOf(projects', h.projectId, h.documentId) = RATE_LIMIT_EXCEEDED

\* C13: when the allowance check before extraction or classification denies the
\* token budget, the document is marked Error, the job is removed from the
\* queue and the worker is free for the next job: the denied job is not kept
\* for a retry.
C13_DeniedJobIsRemoved ==
    [][AllowanceDenied => /\ processingQueue' = Tail(processingQueue)
                          /\ ~isProcessing'
                          /\ job'.pc = "none"]_vars


\* A step in which extractTextFromFile or classifyDocument returns the
\* rate-limit sentinel to the job in flight
SentinelReturned ==
    /\ job.pc \in {"extract", "classify"}
    /\ job'.pc = "backoff"
    /\ ~AllowanceDenied

\* C14: when extract or classify returns the rate-limit sentinel, the status of
\* the document is left as it is and the job stays at the head of the queue;
\* while the backoff timer runs no job is started and the head of the queue
\* stays; when the timer fires the worker is idle with the same job at the
\* head, so that job is the next one taken.
C14_RateLimitedJobWaitsAtHead ==
    [][/\ SentinelReturned =>
            /\ StatusOf(projects', job.projectId, job.documentId)
                  = StatusOf(projects, job.projectId, job.documentId)
            /\ processingQueue' = processingQueue
            /\ isProcessing'
       /\ job.pc = "backoff" =>
            /\ isProcessing
            /\ processingQueue # <<>>
            /\ Head(processingQueue).documentId = job.documentId
            /\ processingQueue' # <<>>
            /\ Head(processingQueue') = Head(processingQueue)
            /\ \/ job' = job
               \/ job' = NoJob /\ ~isProcessing' /\ processingQueue' = processingQueue]_vars

\* the job is being extracted again after its classification was rate limited:
\* the document already carries the text of the first round
C14_RetriedAfterBackoff ==
    /\ job.pc = "extract"
    /\ \E d \in AllDocuments(projects) :
          /\ d.id = job.documentId
          /\ d.extractedText # NoText
          /\ d.status = "Extracting Text"
          /\ d.error = ""


-----------------------------------------------------------------------------
(* Claims about the fields of a document *)

\* the stage of a status along Uploading, Uploaded, Extracting Text,
\* Classifying, then the final statuses
Stage(status) ==
    CASE status = "Uploading" -> 1
      [] status = "Uploaded" -> 2
      [] status = "Extracting Text" -> 3
      [] status = "Classifying" -> 4
      [] OTHER -> 5

FinalStatuses == {"Processed", "Unsupported", "Error"}

\* the documents of projs as a function from id to document
DocumentIds(projs) == { d.id : d \in AllDocuments(projs) }
DocumentOf(projs, did) == CHOOSE d \in AllDocuments(projs) : d.id = did

\* C15: the status of a document only moves forward along Uploading, Uploaded,
\* Extracting Text, Classifying, final; a document that is Processed,
\* Unsupported or Error keeps its status.
C15_StatusMovesForward ==
    [][\A did \in DocumentIds(projects) \cap DocumentIds(projects') :
          LET before == DocumentOf(projects, did).status
              after == DocumentOf(projects', did).status
          IN  /\ Stage(after) >= Stage(before)
              /\ before \in FinalStatuses => after = before]_vars

\* The pipeline of one project together with the manual type assignment of
\* the completeness checklist.
NextTyping ==
    \/ SignedIn
    \/ FetchUserPlanAndLimitsDone(FetchedLimits)
    \/ HandleCreateProject(BatchSizes)
    \/ HandleUpdateDocumentType
    \/ WorkerStart(FALSE)
    \/ ExtractReturns(FALSE)
    \/ ClassifyReturns(FALSE)
    \/ BackoffFires

SpecTyping == Init /\ [][NextTyping]_vars

\* C16: the docTypes of a document only grows: no step removes a label the
\* document already carries.
C16_DocTypesOnlyGrow ==
    [][\A did \in DocumentIds(projects) \cap DocumentIds(projects') :
          SeqToSet(DocumentOf(projects, did).docTypes)
             \subseteq SeqToSet(DocumentOf(projects', did).docTypes)]_vars


\* the extraction stage storing the text of the job's document: the step of
\* ExtractReturns that goes on to classification, or is denied the allowance
\* of classification
ExtractionStoresText ==
    /\ job.pc = "extract"
    /\ job.documentId \in DocumentIds(projects)
    /\ job'.pc = "classify" \/ AllowanceDenied

\* C17: the extractedText of a document is written at most once: the
\* extraction stage stores a text only in a document that has none, also when
\* the job is retried after a rate-limited classification.
C17_TextWrittenOnce ==
    [][ExtractionStoresText =>
          DocumentOf(projects, job.documentId).extractedText = NoText]_vars


-----------------------------------------------------------------------------
(* Claims about the derivation of project details *)

\* the derivations waiting for the 20 second retry timer
RetriesWaiting == { r \in BagToSet(derivs) : r.pc = "retryWait" }

\* C18: while a derivation that got the rate-limit sentinel waits for its
\* retry, the id of its project stays in the currently-extracting set.
C18_LockHeldDuringRetryWait ==
    \A r \in RetriesWaiting : r.projectId \in isExtractingFor


\* the ids of the documents whose text a derivation for pid aggregates from projs
AggregatedIds(projs, pid) ==
    IF HasProject(projs, pid)
    THEN { d.id : d \in SeqToSet(AggregatedDocs(FindProject(projs, pid))) }
    ELSE {}

\* the worker calling runProjectDetailExtraction after the job's document
\* became Processed, with the call getting past the lock and the user check
PipelineTriggers ==
    /\ job.pc = "classify"
    /\ job'.pc = "none"
    /\ HasProject(projects', job.projectId)
    /\ job.projectId \notin job.closure.isExtractingFor
    /\ job.closure.user # Null

\* C19: the text a derivation triggered by the pipeline aggregates is the text
\* of every document of the project that is Processed at that moment, the
\* document that has just finished included.
C19_AggregatesFinishedDocument ==
    [][PipelineTriggers =>
          AggregatedIds(job.closure.projects, job.projectId)
             = AggregatedIds(projects', job.projectId)]_vars


\* Stored snapshots of two projects: the first with any earlier values of its
\* fields and a processed document, so that a derivation of its details has
\* text to send; the second as it was created, without documents.
PreviousTexts == {"", Entered}

StoredProjects ==
    { << [StoredProject EXCEPT !.projectName = name, !.propertyAddress = address,
                               !.clientName = client, !.searchPeriod = period,
                               !.scenario = scenario],
         NewProject(-2, <<>>) >> :
        name \in PreviousTexts, address \in PreviousTexts, client \in PreviousTexts,
        period \in PreviousTexts, scenario \in Scenarios }

InitMerge == \E stored \in StoredProjects : Mounted(stored)

\* A user signs in and asks for the details of the stored projects to be
\* derived again.
NextMerge ==
    \/ SignedIn
    \/ FetchUserPlanAndLimitsDone({UnusedLimits})
    \/ ManualTrigger
    \/ DeriveReturns(MergeTexts)

SpecMerge == InitMerge /\ [][NextMerge]_vars

\* the details a derivation that was not rate limited can resolve with
ReturnedDetails ==
    { d \in { ExtractProjectDetailsAndScenario(reply) :
                 reply \in ProviderReplies(MergeTexts) } : ~d.rateLimited }

\* a returned value when there is one, the previous value otherwise
ReturnedOr(value, previous) == IF value = "" THEN previous ELSE value

\* the project the merge is said to give
MergedAsSpecified(p, d) ==
    [p EXCEPT !.projectName = ReturnedOr(d.projectName, @),
              !.propertyAddress = ReturnedOr(d.propertyAddress, @),
              !.clientName = ReturnedOr(d.clientName, @),
              !.searchPeriod = ReturnedOr(d.searchPeriod, @),
              !.scenario = IF d.scenario \in Scenarios THEN d.scenario ELSE "UNKNOWN"]

\* a derivation for the project of r ending without the sentinel
DerivationSucceeds(r) ==
    /\ r.pc = "ai"
    /\ derivs' = RemoveCall(derivs, r)

\* C20: a successful derivation leaves every other project as it was, and in
\* its own project writes each of the four text fields only when a value was
\* returned and the scenario always, with the returned value when that is in
\* the enumeration and with UNKNOWN otherwise; no other field changes.  The
\* projects after the step are this merge of some details the call can return.
C20_MergeAsSpecified ==
    [][\A r \in BagToSet(derivs) :
          DerivationSucceeds(r) =>
             \E d \in ReturnedDetails :
                projects' = [i \in 1..Len(projects) |->
                               IF projects[i].id = r.projectId
                               THEN MergedAsSpecified(projects[i], d)
                               ELSE projects[i]]]_vars


\* handleCheckCompleteness is called in this step: one more completeness run
\* waits for its timer
CompletenessTriggered ==
    \E c \in BagToSet(checks') :
        /\ c.pc = "timer"
        /\ CopiesIn(c, checks') = CopiesIn(c, checks) + 1

\* C21: a derivation that ends without the sentinel triggers the completeness
\* check if and only if the merge changed the project.
C21_RecheckIffProjectChanged ==
    [][\A r \in BagToSet(derivs) :
          DerivationSucceeds(r) =>
             (CompletenessTriggered <=> projects' # projects)]_vars


-----------------------------------------------------------------------------
(* The monthly reset on its own: fetchUserPlanAndLimits (App.tsx:144-296)   *)
(* reading the user's row at any time of a calendar of a few days, for a    *)
(* user west of, on or east of the UTC meridian.                            *)

MaxMonth == 2       \* months the clock runs through
DaysInMonth == 2    \* days of a month
MaxReads == 3       \* fetchUserPlanAndLimits calls in one behaviour

PreviousDay(date) ==
    IF date.day = 1 THEN Date(date.month - 1, DaysInMonth)
    ELSE Date(date.month, date.day - 1)

NextDay(date) ==
    IF date.day = DaysInMonth THEN Date(date.month + 1, 1)
    ELSE Date(date.month, date.day + 1)

\* toISOString().split('T')[0]: the date of an instant in the UTC calendar
UtcDate(instant) == Date(instant.month, instant.day)

\* the date of an instant in the calendar of a user whose offset from UTC has
\* the sign tz: the early hours of a UTC day belong to the day before for a
\* user in the west, the late hours to the day after for a user in the east
LocalDate(instant, tz) ==
    IF tz < 0 /\ ~instant.late THEN PreviousDay(UtcDate(instant))
    ELSE IF tz > 0 /\ instant.late THEN NextDay(UtcDate(instant))
    ELSE UtcDate(instant)

\* new Date('YYYY-MM-DD'): midnight UTC of that date
ParseDate(date) == Instant(date, FALSE)

\* today.getMonth() !== resetDate.getMonth() || today.getFullYear() !==
\* resetDate.getFullYear(): both read in the user's calendar
ResetIsDue(today, tz, reset_date) ==
    LocalDate(today, tz).month # LocalDate(ParseDate(reset_date), tz).month

UsedLimits == ApiLimits(1, ClassifyInputTokens, ClassifyOutputTokens)

InitReset ==
    /\ user = UserId
    /\ userPlan = None
    /\ userApiLimits = None
    /\ AppMounted(<<>>)
    /\ allowance = NoAllowanceCall
    /\ apiLimitsRow = UsedLimits
    /\ logCalls = EmptyBag
    /\ logged = 0
    /\ savedData = NoSavedData
    /\ loaded = NotLoaded
    /\ aiUsage = <<>>
    /\ dailyUsage = 0
    /\ \E tz \in {-1, 0, 1}, late \in BOOLEAN :
         calendar = [NoCalendar EXCEPT !.today = Instant(Date(1, 1), late), !.tz = tz,
                                       !.reset_date = Date(0, DaysInMonth)]

\* time passes: the late hours of the day, or the early hours of the next
ClockAdvances ==
    /\ calendar.today.late => NextDay(UtcDate(calendar.today)).month <= MaxMonth
    /\ calendar' = [calendar EXCEPT !.today =
                       IF @.late THEN Instant(NextDay(UtcDate(@)), FALSE)
                       ELSE Instant(UtcDate(@), TRUE)]
    /\ UNCHANGED <<pipelineVars, deriverVars, historyVars, allowance, apiLimitsRow,
                   logCalls, logged, savedData, loaded, aiUsage, dailyUsage>>

\* fetchUserPlanAndLimits for a user who has a row, from its read of api_limits
\* to setUserApiLimits; the update of the row can fail
FetchUserPlanAndLimits ==
    /\ user # Null
    /\ calendar.reads < MaxReads
    /\ userPlan' = Some(BasicPlan)
    /\ IF ResetIsDue(calendar.today, calendar.tz, calendar.reset_date)
       THEN /\ userApiLimits' = Some(ApiLimits(0, 0, 0))
            /\ \E updated \in BOOLEAN :
                 /\ apiLimitsRow' = IF updated THEN ApiLimits(0, 0, 0) ELSE apiLimitsRow
                 /\ calendar' = [calendar EXCEPT
                       !.reset_date = IF updated THEN UtcDate(calendar.today) ELSE @,
                       !.reads = @ + 1, !.lastRead = "reset"]
       ELSE /\ userApiLimits' = Some(apiLimitsRow)
            /\ apiLimitsRow' = apiLimitsRow
            /\ calendar' = [calendar EXCEPT !.reads = @ + 1, !.lastRead = "kept"]
    /\ UNCHANGED <<user, projects, processingQueue, isProcessing, isExtractingFor,
                   job, uploads, reportGen, nextId, deriverVars, historyVars,
                   allowance, logCalls, logged, savedData, loaded, aiUsage,
                   dailyUsage>>

\* a successful accounting of one classification between two reads
UsageIsLogged ==
    /\ apiLimitsRow.input_tokens_used_monthly < 2 * ClassifyInputTokens
    /\ apiLimitsRow' = ApiLimits(apiLimitsRow.strs_used_monthly,
                          apiLimitsRow.input_tokens_used_monthly + ClassifyInputTokens,
                          apiLimitsRow.output_tokens_used_monthly + ClassifyOutputTokens)
    /\ UNCHANGED <<pipelineVars, deriverVars, historyVars, allowance, logCalls,
                   logged, savedData, loaded, accountVars>>

NextReset ==
    \/ ClockAdvances
    \/ FetchUserPlanAndLimits
    \/ UsageIsLogged

SpecReset == InitReset /\ [][NextReset]_vars

-----------------------------------------------------------------------------
(* Claims about the monthly reset *)

\* fetchUserPlanAndLimits has read the ledger in this step
LedgerIsRead == calendar'.reads = calendar.reads + 1

\* the month of the stored reset date differs from the month of today, in the
\* UTC calendar and in the calendar of the user
MonthDiffersUtc == calendar.reset_date.month # UtcDate(calendar.today).month
MonthDiffersLocal ==
    calendar.reset_date.month # LocalDate(calendar.today, calendar.tz).month

\* C22: a read of the ledger resets the monthly counters to zero when the month
\* of the stored reset date differs from today's, and no read resets them when
\* the stored reset date is of today's month (in whichever of the two calendars
\* the months are read).
C22_ResetOncePerMonth ==
    [][LedgerIsRead =>
          /\ (MonthDiffersUtc /\ MonthDiffersLocal) =>
                /\ calendar'.lastRead = "reset"
                /\ userApiLimits' = Some(ApiLimits(0, 0, 0))
          /\ calendar'.lastRead = "reset" => (MonthDiffersUtc \/ MonthDiffersLocal)]_vars


-----------------------------------------------------------------------------
(* Claims about the accounting of usage *)

\* the rows of ai_usage as a set
AuditRecords == { aiUsage[i] : i \in 1..Len(aiUsage) }

\* the call r ends in this step with its update of api_limits accepted
UpdatesLimits(r) ==
    /\ r.pc = "update"
    /\ logCalls' = RemoveCall(logCalls, r)
    /\ apiLimitsRow' # apiLimitsRow

\* the call r has its upsert of daily_usage accepted in this step
UpdatesDaily(r) ==
    /\ r.pc = "updateDaily"
    /\ logCalls' = AddCall(RemoveCall(logCalls, r), [r EXCEPT !.pc = "read"])
    /\ dailyUsage' # dailyUsage

-----------------------------------------------------------------------------
(* The audit trail on its own: the logAiCall call at the end of               *)
(* extractTextFromFile, classifyDocument and extractProjectDetailsAndScenario *)
(* for a supported file or a text that is not empty, after any answer of the  *)
(* provider.                                                                  *)

GatewayOperations ==
    {"extractTextFromFile", "classifyDocument", "extractProjectDetailsAndScenario"}

GatewayTexts(operation) ==
    CASE operation = "extractTextFromFile" -> ExtractTexts
      [] operation = "classifyDocument" -> ClassifyTexts
      [] OTHER -> DetailTexts

\* estimatedOutputTokens as the callers of App.tsx pass it
EstimatedOutputTokens(operation) ==
    CASE operation = "extractTextFromFile" -> ExtractOutputTokens
      [] operation = "classifyDocument" -> ClassifyOutputTokens
      [] OTHER -> DetailsOutputTokens

\* estimateTokens: 0 for no text, Math.ceil(text.length / 4) otherwise, which
\* is at least 1
EstimateTokens(text) == IF text = "" THEN 0 ELSE 1

\* actualCompletionTokens || estimatedOutputTokens
ActualOr(actual, estimated) == IF actual # 0 THEN actual ELSE estimated

\* the marker the catch block of an operation looks for next to '429'
ExhaustedMarker(operation) ==
    IF operation = "classifyDocument" THEN "RESOURCE_EXHAUSTED" ELSE "RESOURCE_EXCEEDED"

\* the row logAiCall inserts for the operation after the provider answered
\* reply (kept with the row)
LoggedBy(operation, reply) ==
    LET unparsable == operation = "extractProjectDetailsAndScenario"
                         /\ reply.text = "not json"
        success == reply.ok /\ reply.text # "" /\ ~unparsable
        actualCompletionTokens == IF reply.ok THEN EstimateTokens(reply.text) ELSE 0
        errorMessage ==
            IF success THEN ""
            ELSE IF ~reply.ok
            THEN IF "429" \in reply.err \/ ExhaustedMarker(operation) \in reply.err
                 THEN "Rate limit exceeded" ELSE "error.toString()"
            ELSE IF reply.text = "" THEN "Empty response from AI."
            ELSE "Failed to parse AI response"
    IN  [api_endpoint_type |-> operation, success |-> success,
         completion_tokens |-> ActualOr(actualCompletionTokens,
                                        EstimatedOutputTokens(operation)),
         error_message |-> errorMessage, reply |-> reply]

\* an operation of the gateway ends: its finally block calls logAiCall, which
\* inserts the row
GatewayCallIsLogged ==
    /\ logged < MaxLogCalls
    /\ logged' = logged + 1
    /\ \E operation \in GatewayOperations :
         \E reply \in ProviderReplies(GatewayTexts(operation)) :
            aiUsage' = Append(aiUsage, LoggedBy(operation, reply))
    /\ UNCHANGED <<pipelineVars, deriverVars, historyVars, allowance, apiLimitsRow,
                   logCalls, savedData, loaded, calendar, dailyUsage>>

NextAudit == GatewayCallIsLogged

SpecAudit == InitLedger /\ [][NextAudit]_vars

\* the provider threw, answered nothing, or answered what cannot be parsed
OperationFailed(row) ==
    \/ ~row.reply.ok
    \/ row.reply.text = ""
    \/ row.api_endpoint_type = "extractProjectDetailsAndScenario"
          /\ row.reply.text = "not json"

\* C24: the audit record of every operation that failed has success false,
\* carries the error text and has zero completion tokens.
C24_FailureAuditedWithZeroTokens ==
    \A i \in 1..Len(aiUsage) :
        OperationFailed(aiUsage[i]) =>
            /\ ~aiUsage[i].success
            /\ aiUsage[i].error_message # ""
            /\ aiUsage[i].completion_tokens = 0


\* the provider refused the call with too many requests or resource exhausted
RateLimitSignalled(reply) ==
    /\ ~reply.ok
    /\ "429" \in reply.err \/ "RESOURCE_EXHAUSTED" \in reply.err

\* the operation of a logged call returned the rate-limit sentinel
ReturnedSentinel(row) ==
    CASE row.api_endpoint_type = "extractTextFromFile" ->
            ExtractTextFromFile("application/pdf", row.reply) = RATE_LIMIT_EXCEEDED
      [] row.api_endpoint_type = "classifyDocument" ->
            ClassifyDocument(row.reply) = RATE_LIMIT_EXCEEDED
      [] OTHER -> ExtractProjectDetailsAndScenario(row.reply).rateLimited

\* C25: an operation whose provider call fails with too many requests or with
\* resource exhausted returns the rate-limit sentinel.
C25_RateLimitGivesSentinel ==
    \A i \in 1..Len(aiUsage) :
        RateLimitSignalled(aiUsage[i].reply) => ReturnedSentinel(aiUsage[i])



-----------------------------------------------------------------------------
(* Claims about report generation *)

\* the step in which a report generation ends
GenerationCompletes == reportGen.pc = "call" /\ reportGen'.pc = "none"

\* C27: the completion of a report generation changes nothing of any project
\* but the report field: the documents (their set, statuses, extractedText and
\* docTypes) and the derived metadata are the ones the store held just before
\* the completion, whatever was written while the call was in flight.
C27_CompletionWritesOnlyReport ==
    [][GenerationCompletes =>
          /\ Len(projects') = Len(projects)
          /\ \A i \in 1..Len(projects) :
                projects'[i] = [projects[i] EXCEPT !.report = projects'[i].report]]_vars

-----------------------------------------------------------------------------
(* Claims about concurrent accounting *)

\* C28: no update of the monthly token counters is lost: every accepted update
\* of a call adds the tokens of that call to the counters the ledger holds at
\* that moment, so that once all calls have finished the counters are their
\* starting values plus the tokens of the calls that were accounted.
C28_NoTokenUpdateLost ==
    [][\A r \in BagToSet(logCalls) :
          UpdatesLimits(r) =>
             /\ apiLimitsRow'.input_tokens_used_monthly
                   = apiLimitsRow.input_tokens_used_monthly + PromptTokens(r.endpoint)
             /\ apiLimitsRow'.output_tokens_used_monthly
                   = apiLimitsRow.output_tokens_used_monthly
                        + CompletionTokens(r.endpoint)]_vars

-----------------------------------------------------------------------------
(* Report generation with its accounting: a user whose ledger was loaded   *)
(* at sign-in generates reports of a stored project one after the other;   *)
(* every generation is checked against the plan, sent, and logged.          *)

MaxGenerations == 3     \* generation requests sent in one behaviour

\* the rows of subscription_plans: the daily cap of a plan is any number up to
\* its monthly cap
Plans == { [BasicPlan EXCEPT !.max_strs_per_day = k] : k \in 1..PlanMaxStrsPerMonth }

InitQuota ==
    /\ user = UserId
    /\ userPlan \in { Some(plan) : plan \in Plans }
    /\ \E row \in LoadedLimits :
          /\ userApiLimits = Some(row)
          /\ apiLimitsRow = row
    /\ AppMounted(<<StoredProject>>)
    /\ allowance = NoAllowanceCall
    /\ logCalls = EmptyBag
    /\ logged = 0
    /\ savedData = NoSavedData
    /\ loaded = NotLoaded
    /\ calendar = NoCalendar
    /\ aiUsage = <<>>
    /\ dailyUsage \in 0..1

\* handleGenerateReport up to the provider call: the three checks are made
\* with the plan and the limits of the render, the daily_usage lookup of the
\* STR_GEN check reads today's stored count or fails.  A denied request ends
\* the handler.
ReportRequested ==
    /\ reportGen.pc = "none"
    /\ logged < MaxGenerations
    /\ \E failed \in BOOLEAN :
         reportGen' =
            IF ReportAllowed(Closure(FALSE), DailyUsageReply(failed, dailyUsage))
            THEN [pc |-> "call", project |-> projects[1], closure |-> Closure(FALSE)]
            ELSE NoReportGen
    /\ UNCHANGED <<user, userPlan, userApiLimits, projects, processingQueue,
                   isProcessing, isExtractingFor, job, uploads, nextId,
                   deriverVars, historyVars, serviceVars>>

\* the provider call of generateReport ending: the finally block calls
\* logAiCall, which inserts the audit record; with success = true the
\* accounting follows, and the handler waits for it
ReportCallReturns ==
    /\ reportGen.pc = "call"
    /\ logged' = logged + 1
    /\ \E reply \in ProviderReplies(ReportTexts) :
         LET success == GenerateReport(reportGen.project, reply) = ""
         IN  /\ aiUsage' = Append(aiUsage, AuditRecord("generateReport", success))
             /\ logCalls' =
                   IF success
                   THEN AddCall(logCalls, LogCall("generateReport", "readDaily",
                                                  UnusedLimits))
                   ELSE logCalls
             /\ reportGen' = [reportGen EXCEPT !.pc = IF success THEN "logged"
                                                       ELSE "failed"]
    /\ UNCHANGED <<user, userPlan, userApiLimits, projects, processingQueue,
                   isProcessing, isExtractingFor, job, uploads, nextId,
                   deriverVars, historyVars, allowance, apiLimitsRow, savedData,
                   loaded, calendar, dailyUsage>>

\* logAiCall has returned: the handler writes the report of a successful
\* generation and ends
ReportHandlerEnds ==
    /\ reportGen.pc \in {"logged", "failed"}
    /\ logCalls = EmptyBag
    /\ reportGen' = NoReportGen
    /\ projects' = IF reportGen.pc = "logged"
                   THEN HandleUpdateProject(projects,
                            [reportGen.project EXCEPT !.report = "report"])
                   ELSE projects
    /\ UNCHANGED <<user, userPlan, userApiLimits, processingQueue, isProcessing,
                   isExtractingFor, job, uploads, nextId, deriverVars, historyVars,
                   serviceVars>>

NextQuota ==
    \/ ReportRequested
    \/ ReportCallReturns
    \/ LogAiCallReadsDaily
    \/ LogAiCallUpdatesDaily
    \/ LogAiCallReadsLimits
    \/ LogAiCallUpdatesLimits
    \/ ReportHandlerEnds

SpecQuota == InitQuota /\ [][NextQuota]_vars

-----------------------------------------------------------------------------
(* Claims about the monthly cap *)

\* a generation request goes out to the provider in this step
GenerationSent == reportGen.pc = "none" /\ reportGen'.pc = "call"

\* C29: within one session of report generations, a generation request is
\* sent to the provider only while the stored monthly STR count is below the
\* plan's max_strs_per_month, and the stored count never exceeds that cap.
C29_StoredCountWithinMonthlyCap ==
    [][/\ GenerationSent =>
             apiLimitsRow.strs_used_monthly < Get(userPlan).max_strs_per_month
       /\ apiLimitsRow'.strs_used_monthly <= Get(userPlan).max_strs_per_month]_vars

-----------------------------------------------------------------------------
(* Claims about a failed derivation *)

\* the provider calls of a derivation that fail: the call throws, or it answers
\* with an empty or an unparsable text
FailedReplies ==
    { reply \in ProviderReplies(MergeTexts) :
         ~reply.ok \/ reply.text \in {"", "not json"} }

\* the project a derivation for p writes when its provider call ends with reply
WrittenAfter(p, reply) == MergeDetails(p, ExtractProjectDetailsAndScenario(reply))

\* C30: whenever a derivation waits for its provider call, a failure of that
\* call that is not turned into the rate-limit sentinel makes the derivation
\* write a project with the name, address, client name, search period and
\* scenario the project has.
C30_FailedDerivationKeepsDetails ==
    \A r \in BagToSet(derivs), reply \in FailedReplies, i \in 1..Len(projects) :
        /\ r.pc = "ai"
        /\ projects[i].id = r.projectId
        /\ ~ExtractProjectDetailsAndScenario(reply).rateLimited
        => LET p == projects[i]
               q == WrittenAfter(p, reply)
           IN  /\ q.projectName = p.projectName
               /\ q.propertyAddress = p.propertyAddress
               /\ q.clientName = p.clientName
               /\ q.searchPeriod = p.searchPeriod
               /\ q.scenario = p.scenario

=========================================================================
